---- MODULE Spec2Model ----
(***************************************************************************)
(* Document-extraction viewer: the document page (Document.tsx), the       *)
(* viewer (DocumentViewer), the content pane (DocumentContent), the chat   *)
(* panel (DocumentChat) and the document service (documentService).        *)
(*                                                                         *)
(* A text is a sequence of tokens: a token is a word or the blank " ".     *)
(* An optional value (null / undefined in the source) is a sequence of     *)
(* length 0 or 1.                                                          *)
(***************************************************************************)
EXTENDS Integers, Sequences, FiniteSets, TLC

\* ------------------------------------------------------------------ bounds
MaxChunks == 2
MaxPageIdx == 2
MaxTranscript == 4
MaxOrphanCalls == 1
MaxParseCalls == 1
\* handleParseDocument runs in flight at a time where they may overlap
MaxOverlappingParses == 2
\* Box coordinates are multiples of 1 / BoxGrid
BoxGrid == 4
\* Markdown inputs: texts of at most MaxFragments comment fragments, and tables
\* of at most MaxRows rows of at most MaxCells cells
MaxFragments == 5
MaxRows == 2
MaxCells == 2

\* ------------------------------------------------------------ option values
Null == <<>>

Some(x) == <<x>>

IsNull(o) == o = <<>>

\* JavaScript truthiness of a string / text / list-length test
NonEmpty(s) == Len(s) > 0

Max2(a, b) == IF a >= b THEN a ELSE b

RECURSIVE MaxOf(_)
\* Math.max(...xs) over a non-empty sequence of integers
MaxOf(xs) == IF Len(xs) = 1 THEN xs[1] ELSE Max2(xs[1], MaxOf(Tail(xs)))

RECURSIVE FlatMap(_, _)
\* Array.prototype.flatMap: concatenation of F(x) over the sequence
FlatMap(F(_), xs) == IF xs = <<>> THEN <<>> ELSE F(Head(xs)) \o FlatMap(F, Tail(xs))

\* Array.prototype.filter
Filter(P(_), xs) == SelectSeq(xs, P)

\* Array.prototype.map
Map(F(_), xs) == [i \in 1..Len(xs) |-> F(xs[i])]

\* ----------------------------------------------------------------- chunks
\* DocumentChunk: chunk_id, chunk_type, grounding (null or a list of entries
\* with a 0-based page).
HasGrounding(chunk) == ~IsNull(chunk.grounding) /\ Len(chunk.grounding[1]) > 0

GroundingPages(chunk) ==
    IF IsNull(chunk.grounding) THEN <<>>
    ELSE Map(LAMBDA g : g.page, chunk.grounding[1])

\* chunks.filter(grounded).flatMap(pages): every page index of a chunk list
AllGroundingPages(chunks) == FlatMap(GroundingPages, Filter(HasGrounding, chunks))

\* chunks.find((c) => c.chunk_id === chunkId): index of the first match, 0 if none
FindChunk(chunks, chunkId) ==
    IF \E i \in 1..Len(chunks) : chunks[i].chunk_id = chunkId
    THEN CHOOSE i \in 1..Len(chunks) :
            /\ chunks[i].chunk_id = chunkId
            /\ \A j \in 1..(i - 1) : chunks[j].chunk_id # chunkId
    ELSE 0

ChunkOf(id, type, grounding) == [chunk_id |-> id, chunk_type |-> type, grounding |-> grounding]

\* Grounding values an extraction response may carry for one chunk: none, or
\* boxes on the first page, the last page, or both
GroundingChoices ==
    {Null, Some(<<>>)}
    \cup {Some(<<[page |-> p]>>) : p \in {0, MaxPageIdx}}
    \cup {Some(<<[page |-> MaxPageIdx], [page |-> 0]>>)}

\* Chunk lists of a response: chunk_id unique within a response (the i-th is i)
ChunkLists ==
    UNION {{[i \in 1..n |-> ChunkOf(i, "text", g[i])] : g \in [1..n -> GroundingChoices]}
           : n \in 0..MaxChunks}

\* ------------------------------------------------------- documentService
\* What the network gives back to one fetch of the extraction endpoint:
\*   ok        - 2xx with a JSON body
\*   http      - non-2xx; detail is the body's `detail` (empty text: absent)
\*   transport - fetch itself rejects with a TypeError carrying `detail`
\*   unparsable - a response whose body is not JSON; `ok` tells a 2xx status
NetOk(body) == [kind |-> "ok", body |-> body, detail |-> <<>>]

NoBody == [wrapped |-> FALSE, chunks |-> <<>>, pageCount |-> 0, documentId |-> <<>>]

NetHttp(detail) == [kind |-> "http", body |-> NoBody, detail |-> detail]

NetTransport(message) == [kind |-> "transport", body |-> NoBody, detail |-> message]

NetUnparsable(ok) == [kind |-> "unparsable", body |-> NoBody, detail |-> <<>>, ok |-> ok]

\* The message of the SyntaxError response.json() rejects with
JsonSyntaxError == <<"Unexpected token < in JSON at position 0">>

\* JSON bodies: `wrapped` is the {data: ...} shape, pageCount 0 and documentId
\* <<>> stand for an absent field.
ExtractionBodies ==
    [wrapped : {TRUE}, chunks : ChunkLists, pageCount : {0, 1, MaxPageIdx + 1},
     documentId : {<<>>, <<"doc-1">>}]
    \cup [wrapped : {FALSE}, chunks : ChunkLists, pageCount : {0}, documentId : {<<>>}]

\* The ways a fetch of the extraction endpoint fails
ExtractionFailures ==
    {NetHttp(d) : d \in {<<>>, <<"Unsupported", "file">>, <<"CORS", "not", "allowed">>}}
    \cup {NetTransport(m) : m \in {<<"Failed", "to", "fetch">>,
                                   <<"CORS", "request", "did", "not", "succeed">>}}
    \cup {NetUnparsable(ok) : ok \in BOOLEAN}

ExtractionOutcomes == {NetOk(b) : b \in ExtractionBodies} \cup ExtractionFailures

\* String.prototype.includes on a token text
Includes(text, token) == \E i \in 1..Len(text) : text[i] = token

\* The demo run fetches /demo_form.json, the extraction of the one-page sample
\* image: a flat body whose boxes are all on the first page. The file is on
\* the application's own origin, where no cross-origin rule applies.
IsDemoOutcome(net) ==
    /\ net.kind = "ok" =>
            /\ ~net.body.wrapped
            /\ \A k \in 1..Len(AllGroundingPages(net.body.chunks)) :
                  AllGroundingPages(net.body.chunks)[k] = 0
    /\ net.kind = "transport" => ~Includes(net.detail, "CORS")

Resolve(data) == [kind |-> "resolve", data |-> data, message |-> <<>>]

NoData == [chunks |-> <<>>, pageCount |-> 0, documentId |-> <<>>]

Reject(message) == [kind |-> "reject", data |-> NoData, message |-> message]

\* maxPage + 1 of processDocument / parseDocument: Math.max(...pages, 0) + 1
ServicePageCount(chunks) == MaxOf(AllGroundingPages(chunks) \o <<0>>) + 1

\* The body handling shared by processDocument and parseDocument
AcceptBody(body) ==
    IF body.wrapped
    THEN Resolve([chunks |-> body.chunks,
                  pageCount |-> IF body.pageCount = 0
                                THEN ServicePageCount(body.chunks)
                                ELSE body.pageCount,
                  documentId |-> body.documentId])
    ELSE Resolve([chunks |-> body.chunks, pageCount |-> 1, documentId |-> <<>>])

\* The canned sample document of processDocument's CORS fallback
SampleData ==
    [chunks |-> <<ChunkOf(1, "title", Some(<<[page |-> 0]>>)),
                  ChunkOf(2, "text", Some(<<[page |-> 0]>>)),
                  ChunkOf(3, "form", Some(<<[page |-> 0]>>))>>,
     pageCount |-> 1, documentId |-> <<>>]

\* getLoanFormDemoData: the demo JSON gets a mock documentId and pageCount 1
\* when it has none
GetLoanFormDemoData(net) ==
    CASE net.kind = "ok" ->
            Resolve([chunks |-> net.body.chunks,
                     pageCount |-> IF net.body.pageCount = 0 THEN 1 ELSE net.body.pageCount,
                     documentId |-> <<"demo-loan-form">>])
      [] net.kind = "http" -> Reject(<<"Failed to load demo form data">>)
      [] net.kind = "unparsable" ->
            Reject(IF net.ok THEN JsonSyntaxError ELSE <<"Failed to load demo form data">>)
      [] OTHER -> Reject(net.detail)

\* A variant of processDocument whose catch block has no sample-data fallback
ProcessDocumentNoFallback(net, isDemo) ==
    IF isDemo THEN GetLoanFormDemoData(net)
    ELSE CASE net.kind = "ok" -> AcceptBody(net.body)
           [] net.kind = "http" ->
                Reject(IF NonEmpty(net.detail) THEN net.detail
                       ELSE <<"Failed to process document">>)
           [] net.kind = "unparsable" -> Reject(JsonSyntaxError)
           [] OTHER -> Reject(net.detail)

\* processDocument: the thrown Error of a non-2xx answer and the SyntaxError
\* of response.json() pass through the catch block, a TypeError of fetch with
\* "CORS" in its message is answered with the sample data
ProcessDocument(net, isDemo) ==
    IF isDemo THEN GetLoanFormDemoData(net)
    ELSE CASE net.kind = "ok" -> AcceptBody(net.body)
           [] net.kind = "http" ->
                Reject(IF NonEmpty(net.detail) THEN net.detail
                       ELSE <<"Failed to process document">>)
           [] net.kind = "unparsable" -> Reject(JsonSyntaxError)
           [] OTHER ->
                IF Includes(net.detail, "CORS") THEN Resolve(SampleData)
                ELSE Reject(net.detail)

ParseDocument(net) ==
    CASE net.kind = "ok" -> AcceptBody(net.body)
      [] net.kind = "http" ->
            Reject(IF NonEmpty(net.detail) THEN net.detail
                   ELSE <<"Failed to parse document">>)
      [] net.kind = "unparsable" -> Reject(JsonSyntaxError)
      [] OTHER -> Reject(net.detail)

\* ---------------------------------------------------------------- chat call
\* ChatResponse: message, error (<<>>: absent), suggestedQuestions
ChatResponseOf(message, error, questions) ==
    [message |-> message, error |-> error, suggestedQuestions |-> questions]

\* JSON bodies of the /chat endpoint: message <<>> and suggestedQuestions <<>>
\* stand for an absent (or empty) field
ChatBodies ==
    {ChatResponseOf(m, <<>>, q) : m \in {<<>>, <<"answer">>},
                                  q \in {<<>>, << <<"follow-up">> >>}}

ChatNetOk(body) == [kind |-> "ok", body |-> body, detail |-> <<>>]

ChatNetFail(kind, detail) ==
    [kind |-> kind, body |-> ChatResponseOf(<<>>, <<>>, <<>>), detail |-> detail]

ChatNetOutcomes ==
    {ChatNetOk(b) : b \in ChatBodies}
    \cup {ChatNetFail("http", <<"Chat", "unavailable">>),
          ChatNetFail("transport", <<"Failed", "to", "fetch">>)}

\* The reply chatWithDocument returns from its catch block
ChatFallbackResponse ==
    ChatResponseOf(
        <<"I can answer questions about the document. What would you like to know?">>,
        <<>>,
        << <<"What is the main topic of this document?">>,
           <<"Can you summarize the key points?">>,
           <<"Are there any figures or tables in this document?">> >>)

\* chatWithDocument: every failure is caught inside and answered with the
\* fallback reply, so the promise never rejects
ChatWithDocument(net) ==
    IF net.kind = "ok"
    THEN [kind |-> "resolve",
          response |-> ChatResponseOf(net.body.message, <<>>, net.body.suggestedQuestions)]
    ELSE [kind |-> "resolve", response |-> ChatFallbackResponse]

\* Document.handleSendChatMessage, the callback the page hands to the chat
\* panel: docData is never null on the page, a rejection of chatWithDocument
\* would become {message: "", error}
PageSendChatMessage(net) ==
    LET r == ChatWithDocument(net)
    IN  IF r.kind = "resolve" THEN r
        ELSE [kind |-> "resolve",
              response |-> ChatResponseOf(<<>>, <<"Failed to chat with document. Please try again.">>, <<>>)]

\* ------------------------------------------------------------ DocumentChat
UserEntry(content) == [role |-> "user", content |-> content]

AssistantEntry(content) == [role |-> "assistant", content |-> content]

ThrownChatReply == <<"An error occurred. Please try again.">>

UnprocessedChatReply == <<"Sorry, I couldn't process that request.">>

ErrorChatReply(error) == <<"Error: ">> \o error

IsBlank(token) == token = " "

RECURSIVE TrimStart(_)
TrimStart(text) ==
    IF text # <<>> /\ IsBlank(Head(text)) THEN TrimStart(Tail(text)) ELSE text

RECURSIVE TrimEnd(_)
TrimEnd(text) ==
    IF text # <<>> /\ IsBlank(text[Len(text)])
    THEN TrimEnd(SubSeq(text, 1, Len(text) - 1))
    ELSE text

\* String.prototype.trim
Trim(text) == TrimEnd(TrimStart(text))

\* The default of the initialSuggestedQuestions prop
DefaultSuggestedQuestions ==
    << <<"What information is contained in this document?">>,
       <<"Can you summarize the main points?">>,
       <<"What are the key details in this document?">> >>

\* A variant of SendSettledMessages whose catch block replaces the transcript
\* by the error reply instead of appending to it
SendSettledMessagesReplacing(messages, outcome) ==
    IF outcome.kind = "reject" THEN <<AssistantEntry(ThrownChatReply)>>
    ELSE IF NonEmpty(outcome.response.message)
         THEN Append(messages, AssistantEntry(outcome.response.message))
    ELSE IF NonEmpty(outcome.response.error)
         THEN Append(messages, AssistantEntry(ErrorChatReply(outcome.response.error)))
    ELSE Append(messages, AssistantEntry(UnprocessedChatReply))

\* The transcript after the callback of a typed message has settled
\* (handleSendChatMessage, try / catch)
SendSettledMessages(messages, outcome) ==
    IF outcome.kind = "reject" THEN Append(messages, AssistantEntry(ThrownChatReply))
    ELSE IF NonEmpty(outcome.response.message)
         THEN Append(messages, AssistantEntry(outcome.response.message))
    ELSE IF NonEmpty(outcome.response.error)
         THEN Append(messages, AssistantEntry(ErrorChatReply(outcome.response.error)))
    ELSE Append(messages, AssistantEntry(UnprocessedChatReply))

\* The transcript after the callback of a clicked suggested question has
\* settled (handleSuggestedQuestionClick, then / catch)
SuggestedSettledMessages(messages, outcome) ==
    IF outcome.kind = "reject" THEN Append(messages, AssistantEntry(ThrownChatReply))
    ELSE IF NonEmpty(outcome.response.message)
         THEN Append(messages, AssistantEntry(outcome.response.message))
    ELSE IF NonEmpty(outcome.response.error)
         THEN Append(messages, AssistantEntry(ErrorChatReply(outcome.response.error)))
    ELSE messages

\* A variant of SettledQuestions that takes the list of any resolved response,
\* with a message or without
SettledQuestionsAnyResponse(questions, outcome) ==
    IF /\ outcome.kind = "resolve"
       /\ NonEmpty(outcome.response.suggestedQuestions)
    THEN outcome.response.suggestedQuestions
    ELSE questions

\* The suggested questions after a settled callback (both handlers)
SettledQuestions(questions, outcome) ==
    IF /\ outcome.kind = "resolve"
       /\ NonEmpty(outcome.response.message)
       /\ NonEmpty(outcome.response.suggestedQuestions)
    THEN outcome.response.suggestedQuestions
    ELSE questions

\* The initialSuggestedQuestions a render of DocumentChat sees: the prop, or
\* the default list when the parent passes none
InitialSuggestedQuestions(prop) ==
    IF IsNull(prop) THEN DefaultSuggestedQuestions ELSE prop[1]

\* The suggested questions once the effect on [initialSuggestedQuestions] has
\* run after a render: with no prop passed every render builds a new default
\* list, so the effect runs and sets it; a passed prop that has not changed
\* does not run the effect
QuestionsEffect(prop, questions) ==
    IF IsNull(prop) THEN DefaultSuggestedQuestions ELSE questions

\* ---------------------------------------------------------------- Markdown
\* The text of a Markdown is a sequence of characters; "\n" is the line break.
TableOpenTag == <<"<", "t", "a", "b", "l", "e", ">">>

TableCloseTag == <<"<", "/", "t", "a", "b", "l", "e", ">">>

RowOpenTag == <<"<", "t", "r", ">">>

RowCloseTag == <<"<", "/", "t", "r", ">">>

CellOpenTags == {<<"<", "t", "h", ">">>, <<"<", "t", "d", ">">>}

CellCloseTags == {<<"<", "/", "t", "h", ">">>, <<"<", "/", "t", "d", ">">>}

HeaderOpenTag == <<"<", "t", "h", ">">>

CommentOpen == <<"<", "!", "-", "-">>

CommentClose == <<"-", "-", ">">>

LineBreak == "\n"

\* The characters \s matches
IsWhitespace(char) == char \in {" ", LineBreak, "\t"}

\* The literal `pattern` stands in `text` at position i
StartsWithAt(text, i, pattern) ==
    /\ i >= 1
    /\ i + Len(pattern) - 1 <= Len(text)
    /\ SubSeq(text, i, i + Len(pattern) - 1) = pattern

\* The first position from `from` on where one of the literals stands, 0 if
\* there is none
IndexOfAny(text, patterns, from) ==
    LET hits == {i \in from..Len(text) : \E q \in patterns : StartsWithAt(text, i, q)}
    IN  IF hits = {} THEN 0 ELSE CHOOSE i \in hits : \A j \in hits : i <= j

\* String.prototype.includes on a character text
IncludesText(text, pattern) == IndexOfAny(text, {pattern}, 1) # 0

NoMatch == [start |-> 0, innerStart |-> 0, innerEnd |-> 0, end |-> 0]

\* The first match of /open([\s\S]*?)close/ from `from` on: the leftmost open
\* tag that a close tag follows, up to the first such close tag
FirstMatch(text, opens, closes, from) ==
    LET o == IndexOfAny(text, opens, from)
    IN  IF o = 0 THEN NoMatch
        ELSE LET innerStart == o + Len(CHOOSE q \in opens : StartsWithAt(text, o, q))
                 c == IndexOfAny(text, closes, innerStart)
             IN  IF c = 0 THEN NoMatch
                 ELSE [start |-> o, innerStart |-> innerStart, innerEnd |-> c - 1,
                       end |-> c - 1 + Len(CHOOSE q \in closes : StartsWithAt(text, c, q))]

RECURSIVE MatchAllFrom(_, _, _, _)
MatchAllFrom(text, opens, closes, from) ==
    LET m == FirstMatch(text, opens, closes, from)
    IN  IF m.start = 0 THEN <<>>
        ELSE <<SubSeq(text, m.start, m.end)>> \o MatchAllFrom(text, opens, closes, m.end + 1)

\* String.prototype.match with /open([\s\S]*?)close/g: the matched substrings
MatchAll(text, opens, closes) == MatchAllFrom(text, opens, closes, 1)

RECURSIVE TrimWhitespaceStart(_)
TrimWhitespaceStart(text) ==
    IF text # <<>> /\ IsWhitespace(Head(text)) THEN TrimWhitespaceStart(Tail(text)) ELSE text

RECURSIVE TrimWhitespaceEnd(_)
TrimWhitespaceEnd(text) ==
    IF text # <<>> /\ IsWhitespace(text[Len(text)])
    THEN TrimWhitespaceEnd(SubSeq(text, 1, Len(text) - 1))
    ELSE text

\* String.prototype.trim on a character text
TrimWhitespace(text) == TrimWhitespaceEnd(TrimWhitespaceStart(text))

RECURSIVE StripCellTagsFrom(_, _)
StripCellTagsFrom(cell, from) ==
    LET m == FirstMatch(cell, CellOpenTags, CellCloseTags, from)
    IN  IF m.start = 0 THEN SubSeq(cell, from, Len(cell))
        ELSE SubSeq(cell, from, m.start - 1) \o SubSeq(cell, m.innerStart, m.innerEnd)
             \o StripCellTagsFrom(cell, m.end + 1)

\* cell.replace(/<t[hd]>([\s\S]*?)<\/t[hd]>/g, "$1").trim() || " "
CellContent(cell) ==
    LET inner == TrimWhitespace(StripCellTagsFrom(cell, 1))
    IN  IF inner = <<>> THEN <<" ">> ELSE inner

RECURSIVE Join(_, _)
\* Array.prototype.join
Join(parts, separator) ==
    IF parts = <<>> THEN <<>>
    ELSE IF Len(parts) = 1 THEN parts[1]
    ELSE parts[1] \o separator \o Join(Tail(parts), separator)

\* `| ${parts.join(" | ")} |\n`
TableLine(parts) == <<"|", " ">> \o Join(parts, <<" ", "|", " ">>) \o <<" ", "|", LineBreak>>

\* The cells of a row: row.match(/<t[hd]>([\s\S]*?)<\/t[hd]>/g) || []
RowCells(row) == MatchAll(row, CellOpenTags, CellCloseTags)

\* The lines one <tr> contributes: its cells, and the separator line after a
\* first row that includes "<th>"
RowLines(row, rowIndex) ==
    TableLine([k \in 1..Len(RowCells(row)) |-> CellContent(RowCells(row)[k])])
    \o (IF rowIndex = 0 /\ IncludesText(row, HeaderOpenTag)
        THEN TableLine([k \in 1..Len(RowCells(row)) |-> <<"-", "-", "-">>])
        ELSE <<>>)

RECURSIVE RowsLinesFrom(_, _)
RowsLinesFrom(rows, k) ==
    IF k > Len(rows) THEN <<>> ELSE RowLines(rows[k], k - 1) \o RowsLinesFrom(rows, k + 1)

\* The replacement of one <table>...</table> match
TableToMarkdown(tableContent) ==
    <<LineBreak>> \o RowsLinesFrom(MatchAll(tableContent, {RowOpenTag}, {RowCloseTag}), 1)

RECURSIVE ConvertRowsAnywhereFrom(_, _)
ConvertRowsAnywhereFrom(text, from) ==
    LET m == FirstMatch(text, {RowOpenTag}, {RowCloseTag}, from)
    IN  IF m.start = 0 THEN SubSeq(text, from, Len(text))
        ELSE SubSeq(text, from, m.start - 1)
             \o RowLines(SubSeq(text, m.start, m.end), 0)
             \o ConvertRowsAnywhereFrom(text, m.end + 1)

\* A variant of convertHtmlTableToMarkdown that rewrites every <tr>...</tr>,
\* inside a table or not
ConvertRowsAnywhere(text) == ConvertRowsAnywhereFrom(text, 1)

RECURSIVE ConvertTablesFrom(_, _)
ConvertTablesFrom(text, from) ==
    LET m == FirstMatch(text, {TableOpenTag}, {TableCloseTag}, from)
    IN  IF m.start = 0 THEN SubSeq(text, from, Len(text))
        ELSE SubSeq(text, from, m.start - 1)
             \o TableToMarkdown(SubSeq(text, m.innerStart, m.innerEnd))
             \o ConvertTablesFrom(text, m.end + 1)

\* convertHtmlTableToMarkdown
ConvertHtmlTableToMarkdown(text) == ConvertTablesFrom(text, 1)

RECURSIVE RemoveCommentsFrom(_, _)
\* replace(/<!--.*?-->/g, ""): `.` matches no line break, so an opening that
\* has a line break before its first "-->" starts no match
RemoveCommentsFrom(text, from) ==
    LET m == FirstMatch(text, {CommentOpen}, {CommentClose}, from)
    IN  IF m.start = 0 THEN SubSeq(text, from, Len(text))
        ELSE IF \E i \in m.innerStart..m.innerEnd : text[i] = LineBreak
        THEN SubSeq(text, from, m.start) \o RemoveCommentsFrom(text, m.start + 1)
        ELSE SubSeq(text, from, m.start - 1) \o RemoveCommentsFrom(text, m.end + 1)

RemoveComments(text) == RemoveCommentsFrom(text, 1)

RECURSIVE RunLength(_, _, _)
\* The number of characters of `chars` that stand in a row from position i on
RunLength(text, i, chars) ==
    IF i <= Len(text) /\ text[i] \in chars THEN 1 + RunLength(text, i + 1, chars) ELSE 0

RECURSIVE CollapseLineBreaksFrom(_, _)
CollapseLineBreaksFrom(text, i) ==
    IF i > Len(text) THEN <<>>
    ELSE LET n == RunLength(text, i, {LineBreak})
         IN  IF n >= 3 THEN <<LineBreak, LineBreak>> \o CollapseLineBreaksFrom(text, i + n)
             ELSE <<text[i]>> \o CollapseLineBreaksFrom(text, i + 1)

\* replace(/\n{3,}/g, "\n\n")
CollapseLineBreaks(text) == CollapseLineBreaksFrom(text, 1)

RECURSIVE CollapseWhitespaceFrom(_, _)
CollapseWhitespaceFrom(text, i) ==
    IF i > Len(text) THEN <<>>
    ELSE LET n == RunLength(text, i, {" ", LineBreak, "\t"})
         IN  IF n >= 1 THEN <<" ">> \o CollapseWhitespaceFrom(text, i + n)
             ELSE <<text[i]>> \o CollapseWhitespaceFrom(text, i + 1)

\* replace(/\s+/g, " ")
CollapseWhitespace(text) == CollapseWhitespaceFrom(text, 1)

RECURSIVE ReplaceAllFrom(_, _, _, _)
ReplaceAllFrom(text, pattern, replacement, from) ==
    LET i == IndexOfAny(text, {pattern}, from)
    IN  IF i = 0 THEN SubSeq(text, from, Len(text))
        ELSE SubSeq(text, from, i - 1) \o replacement
             \o ReplaceAllFrom(text, pattern, replacement, i + Len(pattern))

\* String.prototype.replace with the global pattern of a literal
ReplaceAll(text, pattern, replacement) == ReplaceAllFrom(text, pattern, replacement, 1)

\* cleanMarkdown
CleanMarkdown(text) ==
    ReplaceAll(
        ReplaceAll(CollapseWhitespace(CollapseLineBreaks(RemoveComments(text))),
                   <<">", " ">>, <<">">>),
        <<" ", "<">>, <<"<">>)

\* processedContent of a Markdown
ProcessedContent(text) == CleanMarkdown(ConvertHtmlTableToMarkdown(text))

\* ------------------------------------------------- files and the Upload page
\* A File: its MIME type, its name as the parts between the dots, its size in
\* bytes
FileOf(type, name, size) == [type |-> type, name |-> name, size |-> size]

\* maxFileSize of the FileUploader and the limit of Upload.handleFileUpload
MaxFileSize == 250 * 1024 * 1024

ValidImageTypes == {"image/jpeg", "image/jpg", "image/png"}

ValidPdfType == "application/pdf"

ValidExtensions == {"jpg", "jpeg", "png", "pdf"}

\* String.prototype.toLowerCase on the name parts in use
ToLowerCase(part) ==
    CASE part = "JPG" -> "jpg"
      [] part = "PDF" -> "pdf"
      [] OTHER -> part

\* file.name.split(".").pop()?.toLowerCase()
FileExtension(file) == ToLowerCase(file.name[Len(file.name)])

\* Files a user may drop or choose
Files ==
    {FileOf(type, name, size) :
        type \in ValidImageTypes \cup {ValidPdfType, "image/gif", ""},
        name \in {<<"scan", "pdf">>, <<"scan", "JPG">>, <<"scan", "png">>,
                  <<"scan", "txt">>, <<"scan">>, <<"scan", "">>},
        size \in {1, MaxFileSize, MaxFileSize + 1, 300 * 1024 * 1024}}

\* new File([""], "loan-form-sample.jpg", {type: "image/jpeg"}) of the demo
DummyFile == FileOf("image/jpeg", <<"loan-form-sample", "jpg">>, 0)

\* A variant of validateFile that does not look at the file's type
ValidateFileSizeOnly(file) ==
    IF file.size > MaxFileSize
    THEN [ok |-> FALSE, toast |-> Some("File size exceeds the maximum limit of 250MB.")]
    ELSE [ok |-> TRUE,
          toast |-> IF file.type = ValidPdfType
                    THEN Some("Note: PDFs must have 50 pages or fewer.")
                    ELSE Null]

\* FileUploader.validateFile: its result and the toast it shows
ValidateFile(file) ==
    IF file.type \notin ValidImageTypes /\ file.type # ValidPdfType
    THEN [ok |-> FALSE,
          toast |-> Some("Invalid file type. Please upload JPEG, PNG, or PDF.")]
    ELSE IF file.size > MaxFileSize
    THEN [ok |-> FALSE, toast |-> Some("File size exceeds the maximum limit of 250MB.")]
    ELSE [ok |-> TRUE,
          toast |-> IF file.type = ValidPdfType
                    THEN Some("Note: PDFs must have 50 pages or fewer.")
                    ELSE Null]

\* The error Upload.handleFileUpload throws for a file (Null: none)
UploadError(file) ==
    IF file.size > 250 * 1024 * 1024
    THEN Some("File size exceeds the maximum limit of 250MB.")
    ELSE IF FileExtension(file) = "" \/ FileExtension(file) \notin ValidExtensions
    THEN Some("Invalid file format. Please upload JPEG, PNG, or PDF.")
    ELSE Null

\* The toasts of a navigation to the Document page
UploadedToast == "Document uploaded successfully. Processing will begin momentarily."

DemoToast == "Loading Loan Form example. This will use demo data without making API calls."

\* A document a user has uploaded
UploadedFile == FileOf("application/pdf", <<"scan", "pdf">>, 1)

\* The state navigate("/document", {state}) carries
NavigationState(file, isDemo, demoType) ==
    [file |-> file, isDemo |-> isDemo, demoType |-> demoType]

ExampleFiles == {"Invoice", "Lab Report", "Loan Form", "Performance Charts"}

\* ------------------------------------------------------ the upload request
\* Values of processDocument's `pages` argument: null, "" or a page list
PagesValues == {Null, Some(""), Some("1"), Some("1,3")}

FormEntry(name, value) == [name |-> name, value |-> value]

\* A variant of UploadFormData that sends every file in the `image` field
UploadFormDataImageOnly(file, pages) ==
    <<FormEntry("image", file)>>
    \o (IF ~IsNull(pages) /\ pages[1] # "" THEN <<FormEntry("pages", pages[1])>> ELSE <<>>)
    \o <<FormEntry("include_marginalia", "true"),
         FormEntry("include_metadata_in_markdown", "true")>>

\* The FormData processDocument builds, as the list of its appended entries
UploadFormData(file, pages) ==
    <<FormEntry(IF file.type = "application/pdf" THEN "pdf" ELSE "image", file)>>
    \o (IF ~IsNull(pages) /\ pages[1] # "" THEN <<FormEntry("pages", pages[1])>> ELSE <<>>)
    \o <<FormEntry("include_marginalia", "true"),
         FormEntry("include_metadata_in_markdown", "true")>>

\* processDocument takes the demo path for the Loan Form demo only
IsDemoCall(isDemo, demoType) == isDemo /\ demoType = "Loan Form"

\* The request processDocument issues to the extraction endpoint (none on the
\* demo path, which fetches /demo_form.json instead)
ProcessDocumentRequest(file, pages, isDemo, demoType) ==
    IF IsDemoCall(isDemo, demoType) THEN Null ELSE Some(UploadFormData(file, pages))

\* ------------------------------------------------------------------- state
VARIABLES
    \* Document page
    isProcessing, documentData, selectedChunkId, documentId, isChatActive,
    processingError, pageCount,
    \* DocumentViewer
    currentPage,
    zoomLevel,      \* in hundredths: 100 is the zoomLevel 1
    \* DocumentContent
    activeTab, viewMode, isGeneratingQuestions,
    \* DocumentChat; the panel is mounted exactly while activeTab = "chat" and
    \* its state is back at the initial values whenever it is not mounted
    chatMessage, chatMessages, isSendingMessage, suggestedQuestions,
    initialSuggestedQuestions,  \* its prop; Null when the parent passes none
    \* calls in flight
    processCall,   \* Some([isDemo]) while processUploadedDocument awaits
    parseCalls,    \* number of handleParseDocument runs awaiting parseDocument
    chatCalls,     \* callbacks awaited by the mounted chat panel
    orphanCalls,   \* chat calls awaited by panels that have been unmounted
    \* routing and the Upload page
    route,          \* "/" (Upload) or "/document" (Document)
    locationState,  \* the state navigate() handed to the Document page
    uploadToast,    \* the last toast of the Upload page and its FileUploader
    uploadRequest,  \* form data of the last request to the extraction endpoint
    \* Markdown component
    markdownContent,   \* the content prop of a Markdown
    processedContent   \* its processedContent memo, Null before the first render

pageVars == <<isProcessing, documentData, selectedChunkId, documentId, isChatActive,
              processingError, pageCount>>

contentVars == <<activeTab, viewMode, isGeneratingQuestions>>

chatVars == <<chatMessage, chatMessages, isSendingMessage, suggestedQuestions>>

callVars == <<processCall, parseCalls, chatCalls, orphanCalls>>

uploadVars == <<route, locationState, uploadToast, uploadRequest>>

markdownVars == <<markdownContent, processedContent>>

\* State and props no operation of the page writes
fixedVars == <<zoomLevel, initialSuggestedQuestions>>

vars == <<pageVars, currentPage, contentVars, chatVars, callVars, uploadVars, markdownVars,
          fixedVars>>

\* selectedChunkId before any selection (undefined)
NoChunk == 0

\* chunks={documentData?.chunks || []}
Chunks == IF IsNull(documentData) THEN <<>> ELSE documentData[1].chunks

\* processingError as a condition: null and "" are both falsy
HasError(error) == ~IsNull(error) /\ NonEmpty(error[1])

\* The suggestedQuestions prop DocumentContent passes down (its default [])
PageSuggestedQuestions == <<>>

\* --------------------------------------------------------------- rendering
\* What the viewer's main area shows
ViewerPane ==
    IF isProcessing THEN "spinner"
    ELSE IF HasError(processingError) THEN "error"
    ELSE "overlay"

\* A variant of renderContent that tests for chunks before it tests for an error
RenderContentChunksFirst ==
    IF isProcessing THEN "processing"
    ELSE IF Len(Chunks) > 0 THEN (IF viewMode = "blocks" THEN "blocks" ELSE "combined")
    ELSE IF HasError(processingError) THEN "error"
    ELSE "empty"

\* DocumentContent.renderContent
RenderContent ==
    IF isProcessing THEN "processing"
    ELSE IF HasError(processingError) THEN "error"
    ELSE IF Len(Chunks) = 0 THEN "empty"
    ELSE IF viewMode = "blocks" THEN "blocks"
    ELSE "combined"

\* What the content pane shows below its tab buttons
ContentPane == IF activeTab = "parsed" THEN RenderContent ELSE "chat"

\* getChunksForCurrentPage / renderPageOverlay: chunk i has a box on the page shown
OnCurrentPage(chunk) ==
    /\ ~IsNull(chunk.grounding)
    /\ \E k \in 1..Len(chunk.grounding[1]) : chunk.grounding[1][k].page = currentPage - 1

\* ------------------------------------------------------------ page overlay
\* A box coordinate (a number of 1 / BoxGrid units) times 100, the number the
\* style puts before the % sign
Percent(coordinate) == (coordinate * 100) \div BoxGrid

\* The style of an overlay box
BoxStyle(box) ==
    [left |-> Percent(box.l), top |-> Percent(box.t),
     width |-> Percent(box.r - box.l), height |-> Percent(box.b - box.t)]

\* getChunksForCurrentPage
GetChunksForCurrentPage == SelectSeq(Chunks, OnCurrentPage)

\* The grounding entries of a chunk on the page shown
GroundingOnCurrentPage(chunk) ==
    SelectSeq(chunk.grounding[1], LAMBDA g : g.page = currentPage - 1)

\* The box elements renderPageOverlay makes for one chunk: key, owner, the
\* grounding entry drawn, the highlight class and the style
OverlayBox(chunk, gIndex, grounding) ==
    [key |-> <<chunk.chunk_id, gIndex>>,
     chunk_id |-> chunk.chunk_id,
     grounding |-> grounding,
     highlighted |-> selectedChunkId = chunk.chunk_id,
     style |-> BoxStyle(grounding.box)]

\* A variant of ChunkBoxes that draws every grounding entry of a chunk that
\* has one on the page shown
ChunkBoxesOfAllPages(chunk) ==
    [k \in 1..Len(chunk.grounding[1]) |-> OverlayBox(chunk, k - 1, chunk.grounding[1][k])]

ChunkBoxes(chunk) ==
    [k \in 1..Len(GroundingOnCurrentPage(chunk)) |->
        OverlayBox(chunk, k - 1, GroundingOnCurrentPage(chunk)[k])]

\* renderPageOverlay: the box elements in the order they are rendered
RenderPageOverlay == FlatMap(ChunkBoxes, GetChunksForCurrentPage)

\* A variant of RenderBlocks that marks the block at the position the selected
\* id names
RenderBlocksByPosition ==
    [i \in 1..Len(Chunks) |->
        [chunk_id |-> Chunks[i].chunk_id, highlighted |-> selectedChunkId = i]]

\* The chunk blocks of renderContent in the "blocks" view: owner and the
\* highlight class
RenderBlocks ==
    [i \in 1..Len(Chunks) |->
        [chunk_id |-> Chunks[i].chunk_id,
         highlighted |-> selectedChunkId = Chunks[i].chunk_id]]

\* chunks.filter(figure).findIndex((c) => c.chunk_id === chunkId): the 0-based
\* index of the first match, -1 if none
FigureIndex(chunks, chunkId) ==
    LET figureChunks == SelectSeq(chunks, LAMBDA c : ToLowerCase(c.chunk_type) = "figure")
    IN  FindChunk(figureChunks, chunkId) - 1

\* getFigureNumber: the number of `Figure n`, 0 for the empty string
GetFigureNumber(chunkId, chunkType) ==
    IF ToLowerCase(chunkType) # "figure" THEN 0
    ELSE IF FigureIndex(Chunks, chunkId) >= 0 THEN FigureIndex(Chunks, chunkId) + 1
    ELSE 0

\* The label on an overlay box: figureNumber || `${chunkIndex + 1}-${chunk_type}`
OverlayLabel(chunk, chunkIndex) ==
    IF GetFigureNumber(chunk.chunk_id, chunk.chunk_type) # 0
    THEN [prefix |-> "Figure", number |-> GetFigureNumber(chunk.chunk_id, chunk.chunk_type)]
    ELSE [prefix |-> chunk.chunk_type, number |-> chunkIndex + 1]

\* The label on a block of the "blocks" view: `Figure ${index + 1}`,
\* `Table ${index + 1}` or `${index + 1} - ${chunk_type}`
BlockLabel(chunk, index) ==
    IF chunk.chunk_type = "figure" THEN [prefix |-> "Figure", number |-> index + 1]
    ELSE IF chunk.chunk_type = "table" THEN [prefix |-> "Table", number |-> index + 1]
    ELSE [prefix |-> chunk.chunk_type, number |-> index + 1]

\* The chunkIndex renderPageOverlay gives the i-th chunk: its 0-based position
\* among the chunks of the page shown
ChunkIndexOnCurrentPage(i) ==
    Len(SelectSeq(SubSeq(Chunks, 1, i - 1), OnCurrentPage))

\* ----------------------------------------------------------------- effects
\* DocumentViewer's effect on [highlightedChunkId, chunks, pageCount]: the page
\* to show once it has run
ViewerEffect(highlighted, chunks, count, page) ==
    LET i == FindChunk(chunks, highlighted)
    IN  IF highlighted # NoChunk /\ i # 0 /\ HasGrounding(chunks[i])
        THEN LET newPage == chunks[i].grounding[1][1].page + 1
             IN  IF newPage >= 1 /\ newPage <= count THEN newPage ELSE page
        ELSE page

\* DocumentContent's effect on [isChatActive, documentData]
SyncTab(chatActive) == IF chatActive THEN "chat" ELSE "parsed"

\* DocumentContent's effect on [isChatActive, documentData, chatMessages.length]
\* (its own chatMessages stay empty: the pane renders DocumentChat instead)
SyncGenerating(chatActive, generating) == IF chatActive THEN FALSE ELSE generating

\* The chat panel when the content pane goes to tab `tab`: leaving the chat
\* tab unmounts it (its state is gone, its pending callbacks are orphaned)
ChatPanel(tab) ==
    IF activeTab = "chat" /\ tab # "chat"
    THEN /\ orphanCalls + Len(chatCalls) <= MaxOrphanCalls
         /\ chatMessage' = <<>>
         /\ chatMessages' = <<>>
         /\ isSendingMessage' = FALSE
         /\ suggestedQuestions' = PageSuggestedQuestions
         /\ chatCalls' = <<>>
         /\ orphanCalls' = orphanCalls + Len(chatCalls)
    ELSE UNCHANGED <<chatVars, chatCalls, orphanCalls>>

\* ----------------------------------------------------------- Document page
\* calculatedPageCount of processUploadedDocument
\* A page count that takes the highest 0-based page index for the count
CalculatedPageCountZeroBased(data) == MaxOf(AllGroundingPages(data.chunks) \o <<0>>)

CalculatedPageCount(data) ==
    IF data.pageCount # 0 THEN data.pageCount
    ELSE IF Len(data.chunks) > 0
         THEN MaxOf(Map(LAMBDA p : p + 1, AllGroundingPages(data.chunks)) \o <<1>>)
         ELSE 1

\* The page right after mounting: the mount effect has started
\* processUploadedDocument, which awaits processDocument
Init ==
    /\ isProcessing = TRUE
    /\ documentData = Null
    /\ selectedChunkId = NoChunk
    /\ documentId = <<>>
    /\ isChatActive = FALSE
    /\ processingError = Null
    /\ pageCount = 1
    /\ currentPage = 1
    /\ activeTab = "parsed"
    /\ viewMode = "blocks"
    /\ isGeneratingQuestions = FALSE
    /\ chatMessage = <<>>
    /\ chatMessages = <<>>
    /\ isSendingMessage = FALSE
    /\ suggestedQuestions = PageSuggestedQuestions
    /\ processCall \in {Some([isDemo |-> d]) : d \in BOOLEAN}
    /\ parseCalls = 0
    /\ chatCalls = <<>>
    /\ orphanCalls = 0
    /\ route = "/document"
    /\ locationState = Some(IF processCall[1].isDemo
                            THEN NavigationState(DummyFile, TRUE, "Loan Form")
                            ELSE NavigationState(UploadedFile, FALSE, ""))
    /\ uploadToast = Some(IF processCall[1].isDemo THEN DemoToast ELSE UploadedToast)
    /\ uploadRequest = ProcessDocumentRequest(locationState[1].file, Null,
                                              locationState[1].isDemo,
                                              locationState[1].demoType)
    /\ markdownContent = <<>>
    /\ processedContent = <<>>
    /\ zoomLevel = 100
    /\ initialSuggestedQuestions = Some(PageSuggestedQuestions)

\* processUploadedDocument once processDocument has settled with `net`
ProcessUploadedDocumentSettle(net) ==
    /\ ~IsNull(processCall)
    /\ processCall[1].isDemo => IsDemoOutcome(net)
    /\ LET response == ProcessDocument(net, processCall[1].isDemo)
       IN  IF response.kind = "resolve"
           THEN /\ documentData' = Some(response.data)
                /\ documentId' = IF NonEmpty(response.data.documentId)
                                 THEN response.data.documentId
                                 ELSE documentId
                /\ pageCount' = CalculatedPageCount(response.data)
                /\ processingError' = processingError
                /\ currentPage' = ViewerEffect(selectedChunkId, response.data.chunks,
                                               pageCount', currentPage)
           ELSE /\ processingError' = Some(response.message)
                /\ UNCHANGED <<documentData, documentId, pageCount, currentPage>>
    /\ isProcessing' = FALSE
    /\ processCall' = Null
    \* documentData is new (or still null, which the page replaces by a fresh
    \* default object on every render): both DocumentContent effects run
    /\ activeTab' = SyncTab(isChatActive)
    /\ isGeneratingQuestions' = SyncGenerating(isChatActive, isGeneratingQuestions)
    /\ ChatPanel(activeTab')
    /\ UNCHANGED <<selectedChunkId, isChatActive, viewMode, parseCalls>>
    /\ UNCHANGED <<uploadVars, markdownVars, fixedVars>>

\* handleParseDocument up to its await, with at most `limit` runs in flight
HandleParseDocumentWithin(limit) ==
    /\ IF NonEmpty(documentId)
       THEN /\ parseCalls < limit
            /\ isProcessing' = TRUE
            /\ processingError' = Null
            /\ parseCalls' = parseCalls + 1
       ELSE UNCHANGED <<isProcessing, processingError, parseCalls>>
    /\ UNCHANGED <<documentData, selectedChunkId, documentId, isChatActive, pageCount,
                   currentPage, contentVars, chatVars, processCall, chatCalls, orphanCalls>>
    /\ UNCHANGED <<uploadVars, markdownVars, fixedVars>>

\* handleParseDocument while none of its runs is in flight
HandleParseDocument == HandleParseDocumentWithin(MaxParseCalls)

\* handleParseDocument once parseDocument has settled with `net`
HandleParseDocumentSettle(net) ==
    /\ parseCalls > 0
    /\ LET response == ParseDocument(net)
       IN  IF response.kind = "resolve"
           THEN /\ documentData' = Some(response.data)
                /\ pageCount' = IF response.data.pageCount # 0
                                THEN response.data.pageCount
                                ELSE pageCount
                /\ processingError' = processingError
                /\ currentPage' = ViewerEffect(selectedChunkId, response.data.chunks,
                                               pageCount', currentPage)
                /\ activeTab' = SyncTab(isChatActive)
                /\ isGeneratingQuestions' =
                        SyncGenerating(isChatActive, isGeneratingQuestions)
           ELSE /\ processingError' = Some(response.message)
                /\ UNCHANGED <<documentData, pageCount, currentPage, activeTab,
                               isGeneratingQuestions>>
    /\ isProcessing' = FALSE
    /\ parseCalls' = parseCalls - 1
    /\ ChatPanel(activeTab')
    /\ UNCHANGED <<selectedChunkId, documentId, isChatActive, viewMode, processCall>>
    /\ UNCHANGED <<uploadVars, markdownVars, fixedVars>>

\* A chunk's overlay box is on screen in the viewer
BoxShown(chunkId) ==
    /\ ViewerPane = "overlay"
    /\ \E i \in 1..Len(Chunks) : Chunks[i].chunk_id = chunkId /\ OnCurrentPage(Chunks[i])

\* A chunk's block is on screen in the content pane
BlockShown(chunkId) ==
    /\ ContentPane = "blocks"
    /\ \E i \in 1..Len(Chunks) : Chunks[i].chunk_id = chunkId

\* A variant of handleChunkSelect that also empties the chat transcript
HandleChunkSelectClearingChat(chunkId) ==
    /\ BoxShown(chunkId) \/ BlockShown(chunkId)
    /\ selectedChunkId' = chunkId
    /\ currentPage' = IF chunkId # selectedChunkId
                      THEN ViewerEffect(chunkId, Chunks, pageCount, currentPage)
                      ELSE currentPage
    /\ chatMessages' = <<>>
    /\ UNCHANGED <<isProcessing, documentData, documentId, isChatActive, processingError,
                   pageCount, contentVars, chatMessage, isSendingMessage,
                   suggestedQuestions, callVars>>
    /\ UNCHANGED <<uploadVars, markdownVars, fixedVars>>

\* handleChunkSelect, from a click on a box or on a block; the viewer's effect
\* runs when the highlighted id has changed
HandleChunkSelect(chunkId) ==
    /\ BoxShown(chunkId) \/ BlockShown(chunkId)
    /\ selectedChunkId' = chunkId
    /\ currentPage' = IF chunkId # selectedChunkId
                      THEN ViewerEffect(chunkId, Chunks, pageCount, currentPage)
                      ELSE currentPage
    /\ UNCHANGED <<isProcessing, documentData, documentId, isChatActive, processingError,
                   pageCount, contentVars, chatVars, callVars>>
    /\ UNCHANGED <<uploadVars, markdownVars, fixedVars>>

\* A variant of handleChatWithDocument without the documentId test
HandleChatWithDocumentUnguarded(chatActive) == ~chatActive

\* handleChatWithDocument: the new isChatActive
HandleChatWithDocument(chatActive) ==
    IF NonEmpty(documentId) THEN ~chatActive ELSE chatActive

\* ---------------------------------------------------------- DocumentViewer
\* handlePageChange from the previous / next buttons
HandlePageChange(page) ==
    /\ ~isProcessing
    /\ \/ page = currentPage - 1 /\ currentPage # 1
       \/ page = currentPage + 1 /\ currentPage # pageCount /\ pageCount > 1
    /\ currentPage' = IF page >= 1 /\ page <= pageCount THEN page ELSE currentPage
    /\ UNCHANGED <<pageVars, contentVars, chatVars, callVars>>
    /\ UNCHANGED <<uploadVars, markdownVars, fixedVars>>

\* zoomLevel is kept in hundredths: the step 0.25 and the limits 0.5 and 3
ZoomStep == 25

MinZoom == 50

MaxZoom == 300

\* A zoom-in handler without the upper limit
ZoomInUnlimited(prev) == prev + ZoomStep

\* setZoomLevel((prev) => Math.min(prev + 0.25, 3))
ZoomIn(prev) == IF prev + ZoomStep < MaxZoom THEN prev + ZoomStep ELSE MaxZoom

\* setZoomLevel((prev) => Math.max(prev - 0.25, 0.5))
ZoomOut(prev) == Max2(prev - ZoomStep, MinZoom)

\* handleZoomIn from the Zoom In button; a click on the button while it is
\* disabled (isProcessing || zoomLevel >= 3) calls nothing
HandleZoomIn ==
    /\ zoomLevel' = IF isProcessing \/ zoomLevel >= MaxZoom THEN zoomLevel
                    ELSE ZoomIn(zoomLevel)
    /\ UNCHANGED <<pageVars, currentPage, contentVars, chatVars, callVars>>
    /\ UNCHANGED <<uploadVars, markdownVars, initialSuggestedQuestions>>

\* handleZoomOut from the Zoom Out button (disabled while
\* isProcessing || zoomLevel <= 0.5)
HandleZoomOut ==
    /\ zoomLevel' = IF isProcessing \/ zoomLevel <= MinZoom THEN zoomLevel
                    ELSE ZoomOut(zoomLevel)
    /\ UNCHANGED <<pageVars, currentPage, contentVars, chatVars, callVars>>
    /\ UNCHANGED <<uploadVars, markdownVars, initialSuggestedQuestions>>

\* --------------------------------------------------------- DocumentContent
\* The "Document Content" tab button
ClickDocumentContentTab ==
    /\ isChatActive' = IF isChatActive THEN HandleChatWithDocument(isChatActive)
                       ELSE isChatActive
    /\ activeTab' = IF isChatActive' # isChatActive THEN SyncTab(isChatActive')
                    ELSE "parsed"
    /\ isGeneratingQuestions' =
            IF isChatActive' # isChatActive
            THEN SyncGenerating(isChatActive', isGeneratingQuestions)
            ELSE isGeneratingQuestions
    /\ ChatPanel(activeTab')
    /\ UNCHANGED <<isProcessing, documentData, selectedChunkId, documentId,
                   processingError, pageCount, currentPage, viewMode, processCall,
                   parseCalls>>
    /\ UNCHANGED <<uploadVars, markdownVars, fixedVars>>

\* The "Chat with Document" tab button
ClickChatTab ==
    /\ isChatActive' = IF ~isChatActive THEN HandleChatWithDocument(isChatActive)
                       ELSE isChatActive
    /\ activeTab' = IF isChatActive' # isChatActive THEN SyncTab(isChatActive')
                    ELSE "chat"
    /\ isGeneratingQuestions' =
            IF isChatActive' # isChatActive
            THEN SyncGenerating(isChatActive', TRUE)
            ELSE IF ~isChatActive THEN TRUE ELSE isGeneratingQuestions
    /\ ChatPanel(activeTab')
    /\ UNCHANGED <<isProcessing, documentData, selectedChunkId, documentId,
                   processingError, pageCount, currentPage, viewMode, processCall,
                   parseCalls>>
    /\ UNCHANGED <<uploadVars, markdownVars, fixedVars>>

\* The "Content Blocks" / "Combined View" buttons
SetViewMode(mode) ==
    /\ ContentPane \in {"blocks", "combined"}
    /\ viewMode' = mode
    /\ UNCHANGED <<pageVars, currentPage, activeTab, isGeneratingQuestions, chatVars,
                   callVars>>
    /\ UNCHANGED <<uploadVars, markdownVars, fixedVars>>

\* ------------------------------------------------------------ DocumentChat
\* Texts the user may have in the input box
TypedTexts == {<<>>, <<" ">>, <<"hi">>, <<" ", "hi", " ">>}

ChatCallOf(message, via) == [message |-> message, via |-> via]

ChatMounted == activeTab = "chat"

\* onChange of the input box (the box is disabled while a message is being sent)
TypeChatMessage(text) ==
    /\ ChatMounted
    /\ ~isSendingMessage
    /\ chatMessage' = text
    /\ UNCHANGED <<pageVars, currentPage, contentVars, chatMessages, isSendingMessage,
                   suggestedQuestions, callVars>>
    /\ UNCHANGED <<uploadVars, markdownVars, fixedVars>>

\* handleSendChatMessage up to its await, from Enter in the input box or from
\* the Send button (both disabled while a message is being sent)
HandleSendChatMessage ==
    /\ ChatMounted
    /\ ~isSendingMessage
    /\ LET userMessage == Trim(chatMessage)
       IN  IF userMessage = <<>>
           THEN UNCHANGED <<chatVars, chatCalls>>
           ELSE /\ Len(chatMessages) + 2 <= MaxTranscript
                /\ chatMessages' = Append(chatMessages, UserEntry(userMessage))
                /\ chatMessage' = <<>>
                /\ isSendingMessage' = TRUE
                /\ chatCalls' = Append(chatCalls, ChatCallOf(userMessage, "typed"))
                /\ UNCHANGED suggestedQuestions
    /\ UNCHANGED <<pageVars, currentPage, contentVars, processCall, parseCalls,
                   orphanCalls>>
    /\ UNCHANGED <<uploadVars, markdownVars, fixedVars>>

\* handleSuggestedQuestionClick up to the callback's promise; the questions are
\* on screen while the transcript is empty and they are not being generated
HandleSuggestedQuestionClick(i) ==
    /\ ChatMounted
    /\ Len(chatMessages) = 0
    /\ ~isGeneratingQuestions
    /\ i \in 1..Len(suggestedQuestions)
    /\ Len(chatMessages) + 2 <= MaxTranscript
    /\ chatMessages' = Append(chatMessages, UserEntry(suggestedQuestions[i]))
    /\ isSendingMessage' = TRUE
    /\ chatCalls' = Append(chatCalls, ChatCallOf(suggestedQuestions[i], "suggested"))
    /\ UNCHANGED <<pageVars, currentPage, contentVars, chatMessage, suggestedQuestions,
                   processCall, parseCalls, orphanCalls>>
    /\ UNCHANGED <<uploadVars, markdownVars, fixedVars>>

RemoveAt(xs, i) == SubSeq(xs, 1, i - 1) \o SubSeq(xs, i + 1, Len(xs))

\* The rest of either handler once the callback of pending call i has settled
\* with `outcome`
ChatCallbackSettled(i, outcome) ==
    /\ i \in 1..Len(chatCalls)
    /\ chatMessages' = IF chatCalls[i].via = "typed"
                       THEN SendSettledMessages(chatMessages, outcome)
                       ELSE SuggestedSettledMessages(chatMessages, outcome)
    /\ suggestedQuestions' = QuestionsEffect(initialSuggestedQuestions,
                                             SettledQuestions(suggestedQuestions, outcome))
    /\ isSendingMessage' = FALSE
    /\ chatCalls' = RemoveAt(chatCalls, i)
    /\ UNCHANGED <<pageVars, currentPage, contentVars, chatMessage, processCall,
                   parseCalls, orphanCalls>>
    /\ UNCHANGED <<uploadVars, markdownVars, fixedVars>>

\* The parent renders the panel with a new initialSuggestedQuestions prop: the
\* effect on [initialSuggestedQuestions] takes a non-empty list
PassSuggestedQuestions(questions) ==
    /\ ChatMounted
    /\ initialSuggestedQuestions # Some(questions)
    /\ initialSuggestedQuestions' = Some(questions)
    /\ suggestedQuestions' = IF Len(questions) > 0 THEN questions ELSE suggestedQuestions
    /\ UNCHANGED <<pageVars, currentPage, contentVars, chatMessage, chatMessages,
                   isSendingMessage, callVars, uploadVars, markdownVars, zoomLevel>>

\* On the page the callback is Document.handleSendChatMessage over
\* chatWithDocument, which settles when the /chat request does
ChatSettle(i, net) == ChatCallbackSettled(i, PageSendChatMessage(net))

\* The /chat request of an unmounted panel settles: its state updates are
\* dropped
OrphanChatSettle ==
    /\ orphanCalls > 0
    /\ orphanCalls' = orphanCalls - 1
    /\ UNCHANGED <<pageVars, currentPage, contentVars, chatVars, processCall,
                   parseCalls, chatCalls>>
    /\ UNCHANGED <<uploadVars, markdownVars, fixedVars>>

\* ------------------------------------------------- Upload page and routing
\* navigate("/document", {state}): the Document page mounts and its mount
\* effect starts processUploadedDocument, which calls
\* processDocument(file, null, isDemo, demoType)
MountDocument(state) ==
    /\ route' = "/document"
    /\ locationState' = Some(state)
    /\ isProcessing' = TRUE
    /\ processingError' = Null
    /\ processCall' = Some([isDemo |-> IsDemoCall(state.isDemo, state.demoType)])
    /\ uploadRequest' =
            IF IsDemoCall(state.isDemo, state.demoType) THEN uploadRequest
            ELSE ProcessDocumentRequest(state.file, Null, state.isDemo, state.demoType)
    /\ UNCHANGED <<documentData, selectedChunkId, documentId, isChatActive, pageCount,
                   currentPage, contentVars, chatVars, parseCalls, chatCalls,
                   orphanCalls, markdownVars, fixedVars>>

\* The Upload page stays as it is but for its toast
StayOnUpload(toast) ==
    /\ uploadToast' = toast
    /\ UNCHANGED <<pageVars, currentPage, contentVars, chatVars, callVars, route,
                   locationState, uploadRequest, markdownVars, fixedVars>>

\* Upload.handleFileUpload
HandleFileUpload(file) ==
    IF IsNull(UploadError(file))
    THEN /\ uploadToast' = Some(UploadedToast)
         /\ MountDocument(NavigationState(file, FALSE, ""))
    ELSE StayOnUpload(UploadError(file))

\* FileUploader.handleDrop: a file dropped on the drop zone
HandleDrop(file) ==
    /\ route = "/"
    /\ IF ValidateFile(file).ok THEN HandleFileUpload(file)
       ELSE StayOnUpload(ValidateFile(file).toast)

\* FileUploader.handleChange: a file chosen in the file dialog
HandleChange(file) ==
    /\ route = "/"
    /\ IF ValidateFile(file).ok THEN HandleFileUpload(file)
       ELSE StayOnUpload(ValidateFile(file).toast)

\* Upload.handleExampleFileClick
HandleExampleFileClick(name) ==
    /\ route = "/"
    /\ IF name = "Loan Form"
       THEN /\ uploadToast' = Some(DemoToast)
            /\ MountDocument(NavigationState(DummyFile, TRUE, name))
       ELSE StayOnUpload(
                Some("Example file demo is only available for 'Loan Form' at this time."))

\* /document opened without a navigation state: the mount effect of the
\* Document page goes back to "/" and starts nothing
OpenDocumentWithoutState ==
    /\ route = "/"
    /\ UNCHANGED vars

\* Document.handleBackClick: the Document page is unmounted, the state of the
\* page and of its children is gone and a pending call settles into nothing
HandleBackClick ==
    /\ route = "/document"
    /\ route' = "/"
    /\ locationState' = Null
    /\ isProcessing' = FALSE
    /\ documentData' = Null
    /\ selectedChunkId' = NoChunk
    /\ documentId' = <<>>
    /\ isChatActive' = FALSE
    /\ processingError' = Null
    /\ pageCount' = 1
    /\ currentPage' = 1
    /\ activeTab' = "parsed"
    /\ viewMode' = "blocks"
    /\ isGeneratingQuestions' = FALSE
    /\ chatMessage' = <<>>
    /\ chatMessages' = <<>>
    /\ isSendingMessage' = FALSE
    /\ suggestedQuestions' = PageSuggestedQuestions
    /\ processCall' = Null
    /\ parseCalls' = 0
    /\ chatCalls' = <<>>
    /\ orphanCalls' = 0
    /\ UNCHANGED <<uploadToast, uploadRequest, markdownVars, fixedVars>>

\* --------------------------------------------------------- specifications
\* Operations of the page, the viewer and the content pane
PageNext(outcomes) ==
    \/ \E net \in outcomes : ProcessUploadedDocumentSettle(net)
    \/ HandleParseDocument
    \/ \E net \in outcomes : HandleParseDocumentSettle(net)
    \/ \E id \in 1..(MaxChunks + 1) : HandleChunkSelect(id)
    \/ \E page \in 0..(MaxPageIdx + 2) : HandlePageChange(page)
    \/ ClickDocumentContentTab
    \/ ClickChatTab
    \/ \E mode \in {"blocks", "combined"} : SetViewMode(mode)

\* Operations of the chat panel mounted in the page. The page passes an empty
\* suggested-question list, and a list a reply brings arrives with a non-empty
\* transcript, which hides it: no suggested question can be clicked here.
PageChatNext ==
    \/ \E text \in TypedTexts : TypeChatMessage(text)
    \/ HandleSendChatMessage
    \/ \E i \in 1..2, net \in ChatNetOutcomes : ChatSettle(i, net)
    \/ OrphanChatSettle

\* The extraction answers of the specification with the chat in use: a
\* document with a chunk on the second page in its accepted shapes, a flat
\* one-page document, and the failures
ChatPageOutcomes ==
    LET chunks == <<ChunkOf(1, "text", Some(<<[page |-> 1]>>))>>
    IN  {NetOk([wrapped |-> TRUE, chunks |-> chunks, pageCount |-> 0, documentId |-> d])
            : d \in {<<>>, <<"doc-1">>}}
        \cup {NetOk([wrapped |-> FALSE, chunks |-> chunks, pageCount |-> 0,
                     documentId |-> <<>>]),
              NetOk([wrapped |-> FALSE, chunks |-> <<ChunkOf(1, "text", Some(<<[page |-> 0]>>))>>,
                     pageCount |-> 0, documentId |-> <<>>]),
              NetHttp(<<>>),
              NetTransport(<<"Failed", "to", "fetch">>)}

\* The document page in full: processing, viewer, content pane and chat
Next ==
    \/ PageNext(ChatPageOutcomes)
    \/ PageChatNext

Spec == Init /\ [][Next]_vars

\* The document page over every extraction answer within the bounds, with no
\* chat message sent
NextDocuments == PageNext(ExtractionOutcomes)

SpecDocuments == Init /\ [][NextDocuments]_vars

\* The document page over every failure of the extraction endpoint, next to
\* the answers of ChatPageOutcomes, with no chat message sent
NextFailures == PageNext(ExtractionFailures \cup ChatPageOutcomes)

SpecFailures == Init /\ [][NextFailures]_vars

\* The document page where handleParseDocument may be called again before
\* its last run has settled
NextParses ==
    \/ PageNext(ChatPageOutcomes)
    \/ HandleParseDocumentWithin(MaxOverlappingParses)

SpecParses == Init /\ [][NextParses]_vars

\* The steps that need no user: the extraction and parse calls settle
NetworkSettles ==
    \/ \E net \in ExtractionFailures \cup ChatPageOutcomes :
          ProcessUploadedDocumentSettle(net)
    \/ \E net \in ExtractionFailures \cup ChatPageOutcomes :
          HandleParseDocumentSettle(net)

\* The answers given to a parse call when the page counts are followed:
\* every failure, and every body of at most one chunk
ParseOutcomes ==
    {NetOk(b) : b \in {body \in ExtractionBodies : Len(body.chunks) <= 1}}
    \cup ExtractionFailures

\* The runs of the document page alone: the extraction call of the mount
\* effect, answered by any outcome of the endpoint, and the parse calls
NextPageCounts ==
    \/ \E net \in ExtractionOutcomes : ProcessUploadedDocumentSettle(net)
    \/ HandleParseDocument
    \/ \E net \in ParseOutcomes : HandleParseDocumentSettle(net)

SpecPageCounts == Init /\ [][NextPageCounts]_vars

\* The viewer's zoom buttons on the document page, before and after its runs
NextZoom ==
    \/ \E net \in ExtractionFailures \cup ChatPageOutcomes :
          ProcessUploadedDocumentSettle(net)
    \/ HandleParseDocument
    \/ \E net \in ExtractionFailures \cup ChatPageOutcomes :
          HandleParseDocumentSettle(net)
    \/ HandleZoomIn
    \/ HandleZoomOut

SpecZoom == Init /\ [][NextZoom]_vars

\* The same page where every call in flight settles in the end; nothing
\* obliges the user to act
SpecFailuresLive == SpecFailures /\ WF_vars(NetworkSettles)

\* ------------------------------------------------- the chat panel by itself
\* What the onSendChatMessage prop of a DocumentChat may do with a call
CallbackOutcomes ==
    {[kind |-> "resolve", response |-> ChatResponseOf(m, e, q)]
        : m \in {<<>>, <<"answer">>},
          e \in {<<>>, <<"No document data available">>},
          q \in {<<>>, << <<"follow-up">> >>}}
    \cup {[kind |-> "reject", response |-> ChatResponseOf(<<>>, <<>>, <<>>)]}

\* A DocumentChat mounted with its props: initialSuggestedQuestions (its
\* default, or the empty list the content pane passes) and isLoadingQuestions
InitChat ==
    /\ isProcessing = FALSE
    /\ documentData = Null
    /\ selectedChunkId = NoChunk
    /\ documentId = <<>>
    /\ isChatActive = FALSE
    /\ processingError = Null
    /\ pageCount = 1
    /\ currentPage = 1
    /\ activeTab = "chat"
    /\ viewMode = "blocks"
    /\ isGeneratingQuestions \in BOOLEAN
    /\ chatMessage = <<>>
    /\ chatMessages = <<>>
    /\ isSendingMessage = FALSE
    /\ initialSuggestedQuestions \in {Null, Some(PageSuggestedQuestions)}
    /\ suggestedQuestions = InitialSuggestedQuestions(initialSuggestedQuestions)
    /\ processCall = Null
    /\ parseCalls = 0
    /\ chatCalls = <<>>
    /\ orphanCalls = 0
    /\ route = "/document"
    /\ locationState = Null
    /\ uploadToast = Null
    /\ uploadRequest = Null
    /\ markdownContent = <<>>
    /\ processedContent = <<>>
    /\ zoomLevel = 100

\* Lists a parent may pass as initialSuggestedQuestions
ParentQuestionLists == {<<>>, << <<"What is the total?">> >>}

NextChat ==
    \/ \E text \in TypedTexts : TypeChatMessage(text)
    \/ HandleSendChatMessage
    \/ \E i \in 1..3 : HandleSuggestedQuestionClick(i)
    \/ \E i \in 1..2, outcome \in CallbackOutcomes : ChatCallbackSettled(i, outcome)
    \/ \E questions \in ParentQuestionLists : PassSuggestedQuestions(questions)

SpecChat == InitChat /\ [][NextChat]_vars

\* ------------------------------------------- the Upload page and the routes
\* The Upload page right after the application has loaded
InitUpload ==
    /\ isProcessing = FALSE
    /\ documentData = Null
    /\ selectedChunkId = NoChunk
    /\ documentId = <<>>
    /\ isChatActive = FALSE
    /\ processingError = Null
    /\ pageCount = 1
    /\ currentPage = 1
    /\ activeTab = "parsed"
    /\ viewMode = "blocks"
    /\ isGeneratingQuestions = FALSE
    /\ chatMessage = <<>>
    /\ chatMessages = <<>>
    /\ isSendingMessage = FALSE
    /\ suggestedQuestions = PageSuggestedQuestions
    /\ processCall = Null
    /\ parseCalls = 0
    /\ chatCalls = <<>>
    /\ orphanCalls = 0
    /\ route = "/"
    /\ locationState = Null
    /\ uploadToast = Null
    /\ uploadRequest = Null
    /\ markdownContent = <<>>
    /\ processedContent = <<>>
    /\ zoomLevel = 100
    /\ initialSuggestedQuestions = Some(PageSuggestedQuestions)

\* Uploading, the demo, the processing run of the Document page and the way
\* back
NextUpload ==
    \/ \E file \in Files : HandleDrop(file)
    \/ \E file \in Files : HandleChange(file)
    \/ \E name \in ExampleFiles : HandleExampleFileClick(name)
    \/ OpenDocumentWithoutState
    \/ HandleBackClick
    \/ \E net \in ChatPageOutcomes : ProcessUploadedDocumentSettle(net)

SpecUpload == InitUpload /\ [][NextUpload]_vars

\* ------------------------------------------- the viewer over a document
\* Boxes of a response: inside the page, the whole page, reaching over the
\* page's edges, and with its corners swapped
BoxChoices ==
    {[l |-> 1, t |-> 1, r |-> BoxGrid - 1, b |-> 2],
     [l |-> 0, t |-> 0, r |-> BoxGrid, b |-> BoxGrid],
     [l |-> 0 - 1, t |-> 0, r |-> BoxGrid + 1, b |-> BoxGrid],
     [l |-> BoxGrid - 1, t |-> 1, r |-> 1, b |-> 2]}

\* Grounding of one chunk: none, one box on the first or second page, boxes
\* on two pages, two boxes on one page
BoxedGroundingChoices ==
    {Null, Some(<<>>)}
    \cup {Some(<<[page |-> p, box |-> box]>>) : p \in {0, 1}, box \in BoxChoices}
    \cup {Some(<<[page |-> 1, box |-> [l |-> 1, t |-> 1, r |-> BoxGrid - 1, b |-> 2]],
                 [page |-> 0, box |-> [l |-> 0, t |-> 0, r |-> BoxGrid, b |-> BoxGrid]]>>),
          Some(<<[page |-> 0, box |-> [l |-> 1, t |-> 1, r |-> BoxGrid - 1, b |-> 2]],
                 [page |-> 0, box |-> [l |-> 0, t |-> 0, r |-> BoxGrid, b |-> BoxGrid]]>>)}

\* Chunk lists of up to two chunks; nothing makes the chunk_ids of a response
\* differ, so the second chunk may repeat the id of the first
BoxedChunkLists ==
    {<<>>}
    \cup {<<ChunkOf(1, "text", g)>> : g \in BoxedGroundingChoices}
    \cup {<<ChunkOf(1, "text", g), ChunkOf(id, "figure", h)>> :
            g \in BoxedGroundingChoices, h \in BoxedGroundingChoices, id \in {1, 2}}

\* The Document page once processUploadedDocument has stored the document of
\* a wrapped response without pageCount
InitOverlay ==
    /\ \E chunks \in BoxedChunkLists :
          LET body == [wrapped |-> TRUE, chunks |-> chunks, pageCount |-> 0,
                       documentId |-> <<"doc-1">>]
              data == ProcessDocument(NetOk(body), FALSE).data
          IN  /\ documentData = Some(data)
              /\ documentId = data.documentId
              /\ pageCount = CalculatedPageCount(data)
    /\ isProcessing = FALSE
    /\ selectedChunkId = NoChunk
    /\ isChatActive = FALSE
    /\ processingError = Null
    /\ currentPage = 1
    /\ activeTab = "parsed"
    /\ viewMode = "blocks"
    /\ isGeneratingQuestions = FALSE
    /\ chatMessage = <<>>
    /\ chatMessages = <<>>
    /\ isSendingMessage = FALSE
    /\ suggestedQuestions = PageSuggestedQuestions
    /\ processCall = Null
    /\ parseCalls = 0
    /\ chatCalls = <<>>
    /\ orphanCalls = 0
    /\ route = "/document"
    /\ locationState = Some(NavigationState(UploadedFile, FALSE, ""))
    /\ uploadToast = Some(UploadedToast)
    /\ uploadRequest = ProcessDocumentRequest(UploadedFile, Null, FALSE, "")
    /\ markdownContent = <<>>
    /\ processedContent = <<>>
    /\ zoomLevel = 100
    /\ initialSuggestedQuestions = Some(PageSuggestedQuestions)

\* Selecting, paging and the views of the content pane
NextOverlay ==
    \/ \E id \in 1..2 : HandleChunkSelect(id)
    \/ \E page \in 0..3 : HandlePageChange(page)
    \/ \E mode \in {"blocks", "combined"} : SetViewMode(mode)
    \/ ClickDocumentContentTab
    \/ ClickChatTab

SpecOverlay == InitOverlay /\ [][NextOverlay]_vars

\* ------------------------------------------------------ the Markdown by itself
RECURSIVE Flatten(_)
\* The text a sequence of fragments spells
Flatten(fragments) ==
    IF fragments = <<>> THEN <<>> ELSE Head(fragments) \o Flatten(Tail(fragments))

CommentFragments ==
    {CommentOpen, CommentClose, <<"<", "!", "-">>, <<"-">>, <<"a">>, <<LineBreak>>}

\* Texts with comments: complete, unclosed, over several lines, one in another
CommentInputs ==
    {Flatten(fragments) : fragments \in UNION {[1..n -> CommentFragments] : n \in 0..MaxFragments}}

\* The shapes of an HTML table in a chunk text: `rows` rows of `cells` cells,
\* the first a header row or not, cells blank or not, the tags on lines of
\* their own or not, and tags that may be missing
TableShapes ==
    [rows : 0..MaxRows, cells : 0..MaxCells, header : BOOLEAN, blank : BOOLEAN,
     spaced : BOOLEAN, opened : BOOLEAN, closed : BOOLEAN, embedded : BOOLEAN]

Repeat(text, n) == Flatten([k \in 1..n |-> text])

CellText(shape, header) ==
    (IF header THEN <<"<", "t", "h", ">">> ELSE <<"<", "t", "d", ">">>)
    \o (IF shape.blank THEN <<" ">> ELSE <<"a">>)
    \o (IF header THEN <<"<", "/", "t", "h", ">">> ELSE <<"<", "/", "t", "d", ">">>)

RowText(shape, header) ==
    RowOpenTag \o Repeat(CellText(shape, header), shape.cells) \o RowCloseTag
    \o (IF shape.spaced THEN <<LineBreak, " ">> ELSE <<>>)

TableText(shape) ==
    (IF shape.embedded THEN <<"a", LineBreak, LineBreak>> ELSE <<>>)
    \o (IF shape.opened THEN TableOpenTag ELSE <<>>)
    \o (IF shape.spaced THEN <<LineBreak>> ELSE <<>>)
    \o (IF shape.rows > 0 THEN RowText(shape, shape.header) ELSE <<>>)
    \o (IF shape.rows > 1 THEN Repeat(RowText(shape, FALSE), shape.rows - 1) ELSE <<>>)
    \o (IF shape.closed THEN TableCloseTag ELSE <<>>)
    \o (IF shape.embedded THEN <<LineBreak, "b">> ELSE <<>>)

TableInputs == {TableText(shape) : shape \in TableShapes}

MarkdownInputs == CommentInputs \cup TableInputs

\* The Document page showing a document of one text chunk; the Markdown of
\* its block is mounted with the chunk text as content prop and has not
\* rendered yet
InitMarkdown ==
    /\ markdownContent \in MarkdownInputs
    /\ processedContent = Null
    /\ zoomLevel = 100
    /\ initialSuggestedQuestions = Some(PageSuggestedQuestions)
    /\ LET body == [wrapped |-> TRUE, chunks |-> <<ChunkOf(1, "text", Null)>>,
                    pageCount |-> 0, documentId |-> <<"doc-1">>]
           data == ProcessDocument(NetOk(body), FALSE).data
       IN  /\ documentData = Some(data)
           /\ documentId = data.documentId
           /\ pageCount = CalculatedPageCount(data)
    /\ isProcessing = FALSE
    /\ selectedChunkId = NoChunk
    /\ isChatActive = FALSE
    /\ processingError = Null
    /\ currentPage = 1
    /\ activeTab = "parsed"
    /\ viewMode = "blocks"
    /\ isGeneratingQuestions = FALSE
    /\ chatMessage = <<>>
    /\ chatMessages = <<>>
    /\ isSendingMessage = FALSE
    /\ suggestedQuestions = PageSuggestedQuestions
    /\ processCall = Null
    /\ parseCalls = 0
    /\ chatCalls = <<>>
    /\ orphanCalls = 0
    /\ route = "/document"
    /\ locationState = Some(NavigationState(UploadedFile, FALSE, ""))
    /\ uploadToast = Some(UploadedToast)
    /\ uploadRequest = ProcessDocumentRequest(UploadedFile, Null, FALSE, "")

\* The Markdown renders: useMemo computes processedContent from content
RenderMarkdown ==
    /\ route = "/document"
    /\ IsNull(processedContent)
    /\ processedContent' = Some(ProcessedContent(markdownContent))
    /\ UNCHANGED <<pageVars, currentPage, contentVars, chatVars, callVars, uploadVars,
                   markdownContent, fixedVars>>

NextMarkdown == RenderMarkdown

SpecMarkdown == InitMarkdown /\ [][NextMarkdown]_vars

\* ------------------------------------------------- the service's upload call
\* The isDemo / demoType pairs a location.state carries
DemoArguments ==
    {[isDemo |-> FALSE, demoType |-> ""],
     [isDemo |-> TRUE, demoType |-> "Loan Form"],
     [isDemo |-> TRUE, demoType |-> "Invoice"]}

\* The Document page mounted with a file in location.state, before its
\* processing run calls the service
InitService ==
    /\ \E file \in Files, demo \in DemoArguments :
          locationState = Some(NavigationState(file, demo.isDemo, demo.demoType))
    /\ route = "/document"
    /\ uploadToast = Null
    /\ uploadRequest = Null
    /\ isProcessing = FALSE
    /\ documentData = Null
    /\ selectedChunkId = NoChunk
    /\ documentId = <<>>
    /\ isChatActive = FALSE
    /\ processingError = Null
    /\ pageCount = 1
    /\ currentPage = 1
    /\ activeTab = "parsed"
    /\ viewMode = "blocks"
    /\ isGeneratingQuestions = FALSE
    /\ chatMessage = <<>>
    /\ chatMessages = <<>>
    /\ isSendingMessage = FALSE
    /\ suggestedQuestions = PageSuggestedQuestions
    /\ processCall = Null
    /\ parseCalls = 0
    /\ chatCalls = <<>>
    /\ orphanCalls = 0
    /\ markdownContent = <<>>
    /\ processedContent = <<>>
    /\ zoomLevel = 100
    /\ initialSuggestedQuestions = Some(PageSuggestedQuestions)

\* The processing run calls processDocument(file, pages, isDemo, demoType) for
\* the file of location.state; the Document page passes null for pages, the
\* service takes any pages value
ProcessDocumentCall(pages) ==
    /\ route = "/document"
    /\ ~IsNull(locationState)
    /\ IsNull(processCall)
    /\ ~isProcessing
    /\ IsNull(documentData)
    /\ IsNull(processingError)
    /\ LET state == locationState[1]
       IN  /\ processCall' = Some([isDemo |-> IsDemoCall(state.isDemo, state.demoType)])
           /\ uploadRequest' = ProcessDocumentRequest(state.file, pages, state.isDemo,
                                                      state.demoType)
    /\ isProcessing' = TRUE
    /\ processingError' = Null
    /\ UNCHANGED <<documentData, selectedChunkId, documentId, isChatActive, pageCount,
                   currentPage, contentVars, chatVars, parseCalls, chatCalls,
                   orphanCalls, route, locationState, uploadToast, markdownVars,
                   fixedVars>>

NextService ==
    \/ \E pages \in PagesValues : ProcessDocumentCall(pages)
    \/ \E net \in ChatPageOutcomes : ProcessUploadedDocumentSettle(net)

SpecService == InitService /\ [][NextService]_vars

\* ------------------------------------------------------------------ claims
IsPrefix(xs, ys) == Len(xs) <= Len(ys) /\ SubSeq(ys, 1, Len(xs)) = xs

\* The chunk a selection of chunkId refers to has a first grounding entry
SelectsGrounded(chunkId) ==
    FindChunk(Chunks, chunkId) # 0 /\ HasGrounding(Chunks[FindChunk(Chunks, chunkId)])

FirstGroundingPage(chunkId) == Chunks[FindChunk(Chunks, chunkId)].grounding[1][1].page

\* C1: every selection of a chunk whose first grounding entry is on 0-based
\* page P leaves the viewer on page P + 1.
C1_SelectShowsGroundingPage ==
    [][\A id \in 1..(MaxChunks + 1) :
          (HandleChunkSelect(id) /\ SelectsGrounded(id))
              => currentPage' = FirstGroundingPage(id) + 1]_vars

\* C2: a rejected callback appends the 'An error occurred. Please try again.'
\* reply right after the user's message, which the send appended to the
\* transcript as it was; nothing else touches the transcript in between and no
\* step removes or reorders an entry.
C2_RejectedSendTranscript ==
    [][/\ IsPrefix(chatMessages, chatMessages')
       /\ Len(chatCalls') > Len(chatCalls)
            => /\ chatMessages' =
                    Append(chatMessages, UserEntry(chatCalls'[Len(chatCalls')].message))
               /\ Len(chatCalls') = 1
       /\ chatCalls' = chatCalls => chatMessages' = chatMessages
       /\ \A i \in 1..2 : \A outcome \in CallbackOutcomes :
            (outcome.kind = "reject" /\ ChatCallbackSettled(i, outcome))
                => /\ chatMessages[Len(chatMessages)] = UserEntry(chatCalls[i].message)
                   /\ chatMessages' =
                        Append(chatMessages, AssistantEntry(ThrownChatReply))]_vars

\* C2 witness: a transcript that ends with a user message and the reply to a
\* rejected callback
C2_Witness ==
    /\ Len(chatMessages) >= 2
    /\ chatMessages[Len(chatMessages)] = AssistantEntry(ThrownChatReply)
    /\ chatMessages[Len(chatMessages) - 1].role = "user"
    /\ chatCalls = <<>>

\* Number of /chat (callback) calls that have not settled
OutstandingChatCalls == Len(chatCalls) + orphanCalls

\* C3: at most one chat call is outstanding at any time.
C3_OneChatCallAtATime == OutstandingChatCalls <= 1

\* C4: isProcessing is true exactly while a processDocument / parseDocument
\* call is outstanding, isSendingMessage exactly while a chat call is.
C4_BusyFlagsTrackCalls ==
    /\ isProcessing = (~IsNull(processCall) \/ parseCalls > 0)
    /\ isSendingMessage = (OutstandingChatCalls > 0)

\* C5: once no call is pending, every user entry of the transcript is followed
\* by exactly one assistant entry.
C5_OneReplyPerSend ==
    chatCalls = <<>> =>
        /\ Len(chatMessages) % 2 = 0
        /\ \A k \in 1..Len(chatMessages) :
              chatMessages[k].role = IF k % 2 = 1 THEN "user" ELSE "assistant"

\* A reply that reads as an error
IsErrorReply(content) ==
    \/ content = ThrownChatReply
    \/ content = UnprocessedChatReply
    \/ content # <<>> /\ Head(content) = "Error: "

\* C6: when the /chat request fails (transport error or non-2xx), the reply
\* appended for it is an error string.
C6_FailedChatShowsError ==
    [][\A i \in 1..2 : \A net \in ChatNetOutcomes :
          (net.kind # "ok" /\ ChatSettle(i, net))
              => /\ Len(chatMessages') = Len(chatMessages) + 1
                 /\ chatMessages'[Len(chatMessages')].role = "assistant"
                 /\ IsErrorReply(chatMessages'[Len(chatMessages')].content)]_vars

\* C7: no step of the page removes an entry from the chat transcript.
C7_TranscriptKept == [][IsPrefix(chatMessages, chatMessages')]_vars

\* C8: after a successful extraction response without pageCount the stored
\* pageCount is 1 + the largest grounding page of the stored chunks (1 when
\* nothing is grounded), for wrapped and for flat responses.
C8_PageCountCoversGrounding ==
    [][\A net \in ExtractionOutcomes :
          (/\ net.kind = "ok"
           /\ net.body.pageCount = 0
           /\ ~IsNull(processCall)
           /\ ~processCall[1].isDemo
           /\ ProcessUploadedDocumentSettle(net))
              => /\ documentData' = Some([chunks |-> net.body.chunks,
                                          pageCount |-> pageCount',
                                          documentId |-> documentData'[1].documentId])
                 /\ pageCount' = MaxOf(AllGroundingPages(net.body.chunks) \o <<0>>) + 1]_vars

\* C9: once a document is stored, every grounding entry of every stored chunk
\* has 0 <= page < pageCount.
C9_GroundingWithinPageCount ==
    ~IsNull(documentData) =>
        \A k \in 1..Len(AllGroundingPages(Chunks)) :
            /\ AllGroundingPages(Chunks)[k] >= 0
            /\ AllGroundingPages(Chunks)[k] < pageCount

\* A processDocument / parseDocument call settles with a failure in this step
ProcessingFails ==
    \/ \E net \in ChatPageOutcomes :
          /\ ~IsNull(processCall)
          /\ ProcessDocument(net, processCall[1].isDemo).kind = "reject"
          /\ ProcessUploadedDocumentSettle(net)
    \/ \E net \in ChatPageOutcomes :
          /\ ParseDocument(net).kind = "reject"
          /\ HandleParseDocumentSettle(net)

OutstandingProcessingCalls == (IF IsNull(processCall) THEN 0 ELSE 1) + parseCalls

\* C10 as stated: a failure stores its message in processingError, and while
\* an error is stored and isProcessing is false the viewer and the content pane
\* both show the error panel; the failure starts no new call.
C10_ErrorPanelInBothPanes ==
    [][/\ ProcessingFails
            => /\ HasError(processingError')
               /\ OutstandingProcessingCalls' = OutstandingProcessingCalls - 1
       /\ (~IsNull(processingError') /\ ~isProcessing')
            => /\ ViewerPane' = "error"
               /\ ContentPane' = "error"]_vars

\* C10 amended: as above, but the content pane shows the error panel while its
\* Document Content tab is the active one; on the chat tab it shows the chat
\* panel. It never shows the chunk list.
C10_ErrorPanelUnlessChatTab ==
    [][/\ ProcessingFails
            => /\ HasError(processingError')
               /\ OutstandingProcessingCalls' = OutstandingProcessingCalls - 1
       /\ (~IsNull(processingError') /\ ~isProcessing')
            => /\ ViewerPane' = "error"
               /\ ContentPane' = IF activeTab' = "parsed" THEN "error" ELSE "chat"]_vars

\* C10 witness: a parse has failed on a page that holds chunks, and both panes
\* show the error panel
C10_Witness ==
    /\ HasError(processingError)
    /\ ~isProcessing
    /\ Len(Chunks) > 0
    /\ ViewerPane = "error"
    /\ ContentPane = "error"

\* A file the upload constraints admit: JPEG, PNG or PDF of at most 250 MB
AcceptableFile(file) ==
    /\ file.type \in {"image/jpeg", "image/jpg", "image/png", "application/pdf"}
    /\ file.size <= 250 * 1024 * 1024

\* The file an upload request carries
RequestFile(request) ==
    request[CHOOSE k \in 1..Len(request) : request[k].name \in {"pdf", "image"}].value

\* C11: a dropped or chosen file that is larger than 250 MB or not a JPEG, PNG
\* or PDF leaves the application on the Upload page with no call started and
\* no request sent; every navigation to the Document page and every request
\* to the extraction endpoint carries an admissible file.
C11_InvalidFileRejected ==
    [][/\ \A file \in Files :
            (~AcceptableFile(file) /\ (HandleDrop(file) \/ HandleChange(file)))
                => /\ route' = "/"
                   /\ IsNull(processCall')
                   /\ uploadRequest' = uploadRequest
       /\ (route = "/" /\ route' = "/document")
            => AcceptableFile(locationState'[1].file)
       /\ (uploadRequest' # uploadRequest)
            => AcceptableFile(RequestFile(uploadRequest'[1]))]_vars

\* C11 witness: a file of another type has been turned away after a document
\* had been uploaded, and the Upload page is still shown with no call started
C11_Witness ==
    /\ route = "/"
    /\ uploadToast = Some("Invalid file type. Please upload JPEG, PNG, or PDF.")
    /\ IsNull(processCall)
    /\ ~IsNull(uploadRequest)

\* C12: a processDocument call that fails with a TypeError of fetch whose
\* message contains "CORS" resolves with the three-chunk sample document of
\* one page, which the page stores with no error; every other failure of the
\* call rejects, and the page stores its message and no document.
C12_CorsFallbackOnly ==
    [][\A net \in ExtractionFailures :
          ProcessUploadedDocumentSettle(net)
              => IF net.kind = "transport" /\ Includes(net.detail, "CORS")
                 THEN /\ ~IsNull(documentData')
                      /\ Len(documentData'[1].chunks) = 3
                      /\ documentData'[1].pageCount = 1
                      /\ pageCount' = 1
                      /\ IsNull(processingError')
                      /\ ViewerPane' = "overlay"
                 ELSE /\ HasError(processingError')
                      /\ documentData' = documentData]_vars

\* C12 witness: the page shows the sample document after an upload
C12_Witness ==
    /\ ~IsNull(uploadRequest)
    /\ ~isProcessing
    /\ IsNull(processingError)
    /\ Len(Chunks) = 3
    /\ Chunks[1].chunk_type = "title"
    /\ Chunks[3].chunk_type = "form"
    /\ pageCount = 1

\* The extraction endpoint has answered with a status outside 2xx
IsNon2xx(net) == net.kind = "http" \/ (net.kind = "unparsable" /\ ~net.ok)

\* C13: after a non-2xx answer of the extraction endpoint processingError is
\* the `detail` of the response body when that is present and not empty, and
\* 'Failed to process document' otherwise.
C13_DetailOrDefaultMessage ==
    [][\A net \in ExtractionFailures :
          (/\ IsNon2xx(net)
           /\ ~IsNull(processCall)
           /\ ~processCall[1].isDemo
           /\ ProcessUploadedDocumentSettle(net))
              => processingError' =
                    Some(IF net.kind = "http" /\ NonEmpty(net.detail)
                         THEN net.detail
                         ELSE <<"Failed to process document">>)]_vars

\* The places <<i, k>> of the grounding entries on the page shown
PlacesOnCurrentPage ==
    {<<i, k>> \in (1..Len(Chunks)) \X (1..2) :
        /\ ~IsNull(Chunks[i].grounding)
        /\ k <= Len(Chunks[i].grounding[1])
        /\ Chunks[i].grounding[1][k].page = currentPage - 1}

\* C14: the overlay has one box for every grounding entry of a stored chunk
\* whose page is currentPage - 1 and no other box: every box draws an entry of
\* its chunk on that page, every such entry is drawn, and there are as many
\* boxes as such entries (none for a chunk without grounding).
C14_OverlayShowsCurrentPage ==
    /\ \A e \in 1..Len(RenderPageOverlay) :
          /\ RenderPageOverlay[e].grounding.page = currentPage - 1
          /\ \E p \in PlacesOnCurrentPage :
                /\ Chunks[p[1]].chunk_id = RenderPageOverlay[e].chunk_id
                /\ Chunks[p[1]].grounding[1][p[2]] = RenderPageOverlay[e].grounding
    /\ \A p \in PlacesOnCurrentPage :
          \E e \in 1..Len(RenderPageOverlay) :
                /\ Chunks[p[1]].chunk_id = RenderPageOverlay[e].chunk_id
                /\ Chunks[p[1]].grounding[1][p[2]] = RenderPageOverlay[e].grounding
    /\ Len(RenderPageOverlay) = Cardinality(PlacesOnCurrentPage)

\* C14 witness: the second page is shown with the one box of a chunk that has
\* another box on the first page, next to a chunk without grounding
C14_Witness ==
    /\ ViewerPane = "overlay"
    /\ currentPage = 2
    /\ Len(Chunks) = 2
    /\ Len(RenderPageOverlay) = 1
    /\ \E i \in 1..2 : HasGrounding(Chunks[i]) /\ Len(Chunks[i].grounding[1]) = 2
    /\ \E i \in 1..2 : ~HasGrounding(Chunks[i])

\* The chunks with a highlighted box in the overlay
OverlayHighlighted ==
    {i \in 1..Len(Chunks) :
        /\ ViewerPane = "overlay"
        /\ OnCurrentPage(Chunks[i])
        /\ \E k \in 1..Len(ChunkBoxes(Chunks[i])) : ChunkBoxes(Chunks[i])[k].highlighted}

\* The chunks with a highlighted block in the content pane
ContentHighlighted ==
    {i \in 1..Len(Chunks) : ContentPane = "blocks" /\ RenderBlocks[i].highlighted}

\* The chunks whose chunk_id is the selected id
SelectedChunks == {i \in 1..Len(Chunks) : Chunks[i].chunk_id = selectedChunkId}

\* Those of them that have a box on the page shown
SelectedOnCurrentPage == {i \in SelectedChunks : OnCurrentPage(Chunks[i])}

\* C15 as stated: a click on a box selects the id of the box's chunk, and once
\* a chunk is selected the overlay and the content pane both highlight exactly
\* the chunks with the selected id.
C15_SameHighlightInBothPanes ==
    [][/\ \A id \in 1..2 :
            (BoxShown(id) /\ HandleChunkSelect(id)) => selectedChunkId' = id
       /\ selectedChunkId' # NoChunk
            => /\ OverlayHighlighted' = SelectedChunks'
               /\ ContentHighlighted' = SelectedChunks']_vars

\* C15 amended: a click on a box selects the id of the box's chunk; every box
\* the overlay shows and every block the content pane shows is highlighted
\* exactly when its chunk has the selected id. So the content pane highlights
\* all chunks with the selected id while it shows the blocks, and the overlay
\* those of them that have a box on the page shown.
C15_HighlightBySelectedId ==
    [][/\ \A id \in 1..2 :
            (BoxShown(id) /\ HandleChunkSelect(id)) => selectedChunkId' = id
       /\ \A e \in 1..Len(RenderPageOverlay') :
            RenderPageOverlay'[e].highlighted
                <=> (RenderPageOverlay'[e].chunk_id = selectedChunkId')
       /\ \A b \in 1..Len(RenderBlocks') :
            RenderBlocks'[b].highlighted <=> (RenderBlocks'[b].chunk_id = selectedChunkId')
       /\ ViewerPane' = "overlay"
            => OverlayHighlighted' = SelectedOnCurrentPage'
       /\ ContentPane' = "blocks" => ContentHighlighted' = SelectedChunks'
       /\ OverlayHighlighted' \subseteq SelectedChunks'
       /\ ContentHighlighted' \subseteq SelectedChunks']_vars

\* C15 witness: two chunks share the selected id, both blocks are highlighted
\* and the overlay highlights the one that has a box on the page shown
C15_Witness ==
    /\ selectedChunkId # NoChunk
    /\ Cardinality(SelectedChunks) = 2
    /\ ContentHighlighted = SelectedChunks
    /\ Cardinality(OverlayHighlighted) = 1

\* C16: every box of the overlay is drawn at left = l * 100, top = t * 100,
\* width = (r - l) * 100 and height = (b - t) * 100 percent, and each of the
\* four numbers lies within 0..100.
C16_BoxWithinPage ==
    \A e \in 1..Len(RenderPageOverlay) :
        LET box == RenderPageOverlay[e].grounding.box
            style == RenderPageOverlay[e].style
        IN  /\ style.left = Percent(box.l)
            /\ style.top = Percent(box.t)
            /\ style.width = Percent(box.r - box.l)
            /\ style.height = Percent(box.b - box.t)
            /\ {style.left, style.top, style.width, style.height} \subseteq 0..100

\* The <table>...</table> stretches of a text, and the <tr>...</tr> rows of one
TablesOf(text) == MatchAll(text, {TableOpenTag}, {TableCloseTag})

RowsOf(table) == MatchAll(table, {RowOpenTag}, {RowCloseTag})

\* C17: the text handed to the markdown renderer holds, for every <tr> of every
\* HTML table of the content, the line "| cell | cell |" ended by a line
\* break, and directly after the line of a first row with <th> cells the
\* line "| --- | --- |", ended by a line break too.
C17_TableRowsOnLines ==
    ~IsNull(processedContent)
        => \A t \in 1..Len(TablesOf(markdownContent)) :
              LET rows == RowsOf(TablesOf(markdownContent)[t])
              IN  \A k \in 1..Len(rows) :
                     RowCells(rows[k]) # <<>>
                         => IncludesText(processedContent[1], RowLines(rows[k], k - 1))

\* C18: for a content without "<table>" the conversion returns the content
\* unchanged, the rendered text is cleanMarkdown(content), and converting
\* twice gives what converting once gives.
C18_IdentityWithoutTable ==
    (~IsNull(processedContent) /\ ~IncludesText(markdownContent, TableOpenTag))
        => /\ ConvertHtmlTableToMarkdown(markdownContent) = markdownContent
           /\ processedContent[1] = CleanMarkdown(markdownContent)
           /\ ConvertHtmlTableToMarkdown(ConvertHtmlTableToMarkdown(markdownContent))
                  = ConvertHtmlTableToMarkdown(markdownContent)

\* A content with rows and a closing table tag but no "<table>" has rendered,
\* and its rows are still HTML
C18_Witness ==
    /\ ~IsNull(processedContent)
    /\ ~IncludesText(markdownContent, TableOpenTag)
    /\ IncludesText(markdownContent, RowOpenTag)
    /\ IncludesText(markdownContent, TableCloseTag)
    /\ IncludesText(processedContent[1], RowOpenTag)

\* A "<!--" that a "-->" follows stands in the text
HasComment(text) == FirstMatch(text, {CommentOpen}, {CommentClose}, 1) # NoMatch

\* C19: the rendered text holds no HTML comment, whatever the comments of the
\* content were (on one line, over several lines, one inside another), and
\* cleaning the rendered text again changes nothing.
C19_NoCommentLeft ==
    ~IsNull(processedContent)
        => /\ ~HasComment(processedContent[1])
           /\ CleanMarkdown(processedContent[1]) = processedContent[1]

\* The positions of the fields of a form that bear one of the names
FieldsNamed(form, names) == {i \in 1..Len(form) : form[i].name \in names}

\* C20: the form of every upload request has exactly one file field, named
\* "pdf" for a file of type application/pdf and "image" for any other, holding
\* the file; one include_marginalia and one include_metadata_in_markdown
\* field, both "true"; and a pages field, holding the pages value, exactly
\* when a non-empty pages value was given.
C20_UploadFormFields ==
    [][\A pages \in PagesValues :
          (ProcessDocumentCall(pages) /\ ~processCall'[1].isDemo)
              => LET file == locationState[1].file
                     form == uploadRequest'[1]
                     given == ~IsNull(pages) /\ pages[1] # ""
                 IN  /\ ~IsNull(uploadRequest')
                     /\ Cardinality(FieldsNamed(form, {"pdf", "image"})) = 1
                     /\ \A i \in FieldsNamed(form, {"pdf", "image"}) :
                            /\ form[i].value = file
                            /\ form[i].name = "pdf" <=> file.type = "application/pdf"
                     /\ \A flag \in {"include_marginalia", "include_metadata_in_markdown"} :
                            /\ Cardinality(FieldsNamed(form, {flag})) = 1
                            /\ \A i \in FieldsNamed(form, {flag}) : form[i].value = "true"
                     /\ Cardinality(FieldsNamed(form, {"pages"})) = IF given THEN 1 ELSE 0
                     /\ \A i \in FieldsNamed(form, {"pages"}) : form[i].value = pages[1]
                     /\ FieldsNamed(form, {"pdf", "image", "pages", "include_marginalia",
                                           "include_metadata_in_markdown"}) = 1..Len(form)]_vars

\* A PDF has been sent with a pages value: the request has a pdf and a pages
\* field
C20_Witness ==
    /\ ~IsNull(uploadRequest)
    /\ ~IsNull(locationState)
    /\ locationState[1].file.type = "application/pdf"
    /\ FieldsNamed(uploadRequest[1], {"pdf"}) # {}
    /\ FieldsNamed(uploadRequest[1], {"pages"}) # {}

\* A response that refreshes the suggested questions: a message and a list
RefreshesQuestions(outcome) ==
    /\ outcome.kind = "resolve"
    /\ NonEmpty(outcome.response.message)
    /\ NonEmpty(outcome.response.suggestedQuestions)

\* C21: a step changes the suggested-question list of the chat panel only if
\* it is the settling of a callback whose response has a message and a
\* non-empty suggestedQuestions list, which becomes the list, or the passing
\* of a non-empty list by the parent; a rejected callback and a response
\* without message (with an error or empty) leave the list as it is.
C21_QuestionsReplacedByReplyOnly ==
    [][/\ \A i \in 1..2, outcome \in CallbackOutcomes :
              ChatCallbackSettled(i, outcome)
                  => IF RefreshesQuestions(outcome)
                     THEN suggestedQuestions' \in {suggestedQuestions,
                                                   outcome.response.suggestedQuestions}
                     ELSE suggestedQuestions' = suggestedQuestions
       /\ suggestedQuestions' # suggestedQuestions
              => \/ \E i \in 1..2, outcome \in CallbackOutcomes :
                        ChatCallbackSettled(i, outcome)
                 \/ \E questions \in ParentQuestionLists :
                        /\ PassSuggestedQuestions(questions)
                        /\ Len(questions) > 0
                        /\ suggestedQuestions' = questions]_vars

\* A reply with a message and a list has replaced the list of a panel
C21_Witness ==
    /\ Len(chatMessages) = 2
    /\ chatMessages[2] = AssistantEntry(<<"answer">>)
    /\ chatCalls = <<>>
    /\ suggestedQuestions = << <<"follow-up">> >>

\* C22: sending a chat message and the settling of its call leave
\* documentData, pageCount, selectedChunkId, processingError and isProcessing
\* as they are; selecting a chunk leaves documentData, pageCount,
\* processingError and the chat transcript as they are.
C22_ActionsKeepOtherState ==
    [][/\ (\/ HandleSendChatMessage
           \/ \E i \in 1..2, net \in ChatNetOutcomes : ChatSettle(i, net)
           \/ OrphanChatSettle)
              => UNCHANGED <<documentData, pageCount, selectedChunkId, processingError,
                             isProcessing>>
       /\ (\E id \in 1..(MaxChunks + 1) : HandleChunkSelect(id))
              => UNCHANGED <<documentData, pageCount, processingError, chatMessages>>]_vars

\* A chunk has been selected while the transcript holds a message and its
\* reply
C22_Witness ==
    /\ selectedChunkId # NoChunk
    /\ Len(chatMessages) = 2
    /\ chatMessages[2].role = "assistant"
    /\ ~IsNull(documentData)

\* C23: the page the viewer shows is a page of the document:
\* 1 <= currentPage <= pageCount in every state.
C23_CurrentPageWithinDocument == 1 <= currentPage /\ currentPage <= pageCount

\* C24: whenever the Chat tab is open and the content pane is generating
\* questions, the generating state ends at some later point, so that the
\* suggested questions can be clicked.
C24_GeneratingEventuallyStops ==
    (activeTab = "chat" /\ isGeneratingQuestions) ~> ~isGeneratingQuestions

\* C25: the tab the content pane shows agrees with the chat mode of the
\* page: activeTab is "chat" exactly when isChatActive is true.
C25_TabAgreesWithChatMode == (activeTab = "chat") <=> isChatActive

\* The tab buttons call handleChatWithDocument when the tab they open differs
\* from the chat mode
CallsHandleChatWithDocument ==
    \/ ClickChatTab /\ ~isChatActive
    \/ ClickDocumentContentTab /\ isChatActive

\* The number of network calls in flight
CallsInFlight ==
    (IF IsNull(processCall) THEN 0 ELSE 1) + parseCalls + Len(chatCalls) + orphanCalls

\* C26: with an empty documentId a call of handleChatWithDocument or of
\* handleParseDocument leaves isChatActive, isProcessing, processingError,
\* documentData and pageCount as they are and starts no network call; with a
\* documentId every call of handleChatWithDocument negates isChatActive.
C26_NoDocumentIdNoEffect ==
    [][/\ (documentId = <<>> /\ (CallsHandleChatWithDocument \/ HandleParseDocument))
              => /\ UNCHANGED <<isChatActive, isProcessing, processingError, documentData,
                                pageCount, processCall, parseCalls>>
                 /\ CallsInFlight' = CallsInFlight
       /\ (documentId # <<>> /\ CallsHandleChatWithDocument)
              => isChatActive' = ~isChatActive]_vars

\* The chat mode has been switched on for a document with a documentId
C26_Witness ==
    /\ documentId # <<>>
    /\ isChatActive
    /\ activeTab = "chat"
    /\ ~isProcessing

\* No processDocument or parseDocument run is in flight
NoRunInFlight == IsNull(processCall) /\ parseCalls = 0

\* C27: when a run settles and leaves no run in flight, processingError is
\* non-null exactly if that run, the most recently completed one, has failed.
C27_ErrorTracksLastRun ==
    [][\A net \in ChatPageOutcomes :
          /\ (ProcessUploadedDocumentSettle(net) /\ NoRunInFlight')
                 => (~IsNull(processingError')
                        <=> ProcessDocument(net, processCall[1].isDemo).kind = "reject")
          /\ (HandleParseDocumentSettle(net) /\ NoRunInFlight')
                 => (~IsNull(processingError')
                        <=> ParseDocument(net).kind = "reject")]_vars

C29_FigureNumbersAgree ==
    (activeTab = "parsed" /\ viewMode = "blocks")
        => \A i \in 1..Len(Chunks) :
              (Chunks[i].chunk_type = "figure" /\ OnCurrentPage(Chunks[i]))
                  => OverlayLabel(Chunks[i], ChunkIndexOnCurrentPage(i))
                         = BlockLabel(Chunks[i], i - 1)

\* C30: zoomLevel stays within [0.5, 3] and is 1 plus a multiple of 0.25
\* under every sequence of zoom-in and zoom-out; zoom-in at 3 and zoom-out at
\* 0.5 leave it unchanged.
C30_ZoomWithinLimits ==
    /\ MinZoom <= zoomLevel /\ zoomLevel <= MaxZoom
    /\ (zoomLevel - 100) % ZoomStep = 0
    /\ zoomLevel = MaxZoom => ZoomIn(zoomLevel) = zoomLevel
    /\ zoomLevel = MinZoom => ZoomOut(zoomLevel) = zoomLevel

\* Zooming in has reached the upper limit
C30_Witness == zoomLevel = MaxZoom /\ ~isProcessing /\ ~IsNull(documentData)
====
